---- MODULE Spec2Model ----
(***************************************************************************)
(* A model of the knowledge-base pipeline of the repository:               *)
(*   - TestCaseGenerator._parse_test_cases      (src/test_case_generator.py)*)
(*   - ReverseEngineer._parse_requirements_response (src/reverse_engineer.py)*)
(*   - KnowledgeBaseBuilder.build and its helpers (src/knowledge_base_builder.py)*)
(* Text is modelled as a sequence of one-character strings, a text that    *)
(* was split on newlines as a sequence of such lines.                      *)
(***************************************************************************)
EXTENDS Integers, Sequences, FiniteSets, TLC

VARIABLES
    \* ---- TestCaseGenerator._parse_test_cases ----
    tc_lines,        \* test_cases_text.split('\n')
    max_tests,       \* the caller-supplied maximum
    tc_pos,          \* number of lines the for loop has consumed
    tc_pc,           \* "idle" | "loop" | "after" | "done"
    current_test,    \* <<>> for None, <<record>> for an open record
    current_field,   \* "none" | "name" | "description" | "input" | "expected" | "steps"
    test_cases,      \* the list being built / returned
    \* ---- ReverseEngineer._parse_requirements_response ----
    req_lines,       \* requirements_text.split('\n')
    req_pos,
    req_pc,          \* "idle" | "loop" | "done"
    current_section, \* "none" | "FR" | "NFR"
    current_req,     \* <<>> for None, <<record>> for an open record
    functional_requirements,
    non_functional_requirements,
    \* ---- KnowledgeBaseBuilder._are_sections_related_llm ----
    llm_response,    \* what llm_client.invoke does: a text, or Raised
    llm_pc,          \* "idle" | "call" | "returned"
    llm_result,      \* the boolean returned
    \* ---- KnowledgeBaseBuilder.build ----
    kb_in,           \* the arguments of build()
    llm_client,      \* TRUE: a client exists, FALSE: self.llm_client is None
    kb_pc,           \* position inside build()
    kb_k,            \* pairs of the current cross product already examined
    next_uuid,       \* number of uuid.uuid4() calls made so far
    kb,              \* the entity lists of the graph
    relationships,   \* the five edge lists
    calls,           \* every classifier invocation made, in order
    first_run,       \* <<>>, or <<the graph and the invocations of an earlier build()>>
    every_call_failed, \* no classifier invocation of this build() has got a response
    \* ---- TestCaseGenerator.generate_test_cases ----
    parsed_code,     \* the files, in iteration order, with their functions and classes
    settings,        \* the three configured limits
    gen_llm_client,  \* TRUE: a client exists, FALSE: self.llm_client is None
    gen_pc,          \* "idle" | "files" | "functions" | "classes" | "done" | "raised"
    gen_file,        \* number of files the outer loop has taken
    gen_item,        \* functions (or classes) of the file the inner loop has taken
    file_test_cases, \* the tests of the file being processed
    gen_test_cases,  \* the mapping being built / returned, in insertion order
    total_test_cases,
    generated,       \* the functions and classes tests were generated for, in order
    \* ---- ReverseEngineer._parse_design_response ----
    des_lines,       \* design_text.split('\n')
    des_pos,
    des_pc,          \* "idle" | "loop" | "after" | "done"
    des_section,     \* current_section: <<>> for None, <<title>> otherwise
    current_content, \* the body lines accumulated
    sections         \* the list being built / returned

tcVars  == <<tc_lines, max_tests, tc_pos, tc_pc, current_test, current_field, test_cases>>
reqVars == <<req_lines, req_pos, req_pc, current_section, current_req,
             functional_requirements, non_functional_requirements>>
llmVars == <<llm_response, llm_pc, llm_result>>
kbVars  == <<kb_in, llm_client, kb_pc, kb_k, next_uuid, kb, relationships, calls,
             first_run, every_call_failed>>
genVars == <<parsed_code, settings, gen_llm_client, gen_pc, gen_file, gen_item,
             file_test_cases, gen_test_cases, total_test_cases, generated>>
desVars == <<des_lines, des_pos, des_pc, des_section, current_content, sections>>
vars    == <<tcVars, reqVars, llmVars, kbVars, genVars, desVars>>

----------------------------------------------------------------------------
(* Bounds of the model *)

MaxLines == 3
MaxTests == 2

----------------------------------------------------------------------------
(* Python string primitives on sequences of characters *)

Uppers == <<"A","B","C","D","E","F","G","H","I","J","K","L","M",
            "N","O","P","Q","R","S","T","U","V","W","X","Y","Z">>
Lowers == <<"a","b","c","d","e","f","g","h","i","j","k","l","m",
            "n","o","p","q","r","s","t","u","v","w","x","y","z">>
Digits == {"0","1","2","3","4","5","6","7","8","9"}
Spaces == {" ", "\t", "\n", "\r"}

\* The lower-case and the upper-case form of each letter
Cased ==
    [c \in {Uppers[i] : i \in 1..26} \cup {Lowers[i] : i \in 1..26} |->
        LET i == CHOOSE k \in 1..26 : Uppers[k] = c \/ Lowers[k] = c
        IN  <<Lowers[i], Uppers[i]>>]

LowerChar(c) == IF c \in DOMAIN Cased THEN Cased[c][1] ELSE c

UpperChar(c) == IF c \in DOMAIN Cased THEN Cased[c][2] ELSE c

\* str.lower() / str.upper()
Lower(s) == [i \in 1..Len(s) |-> LowerChar(s[i])]
Upper(s) == [i \in 1..Len(s) |-> UpperChar(s[i])]

\* s[a:] with a 0-based
DropFirst(s, n) == SubSeq(s, n + 1, Len(s))
\* s[:n]
Take(s, n) == SubSeq(s, 1, IF n < Len(s) THEN n ELSE Len(s))

\* str.lstrip(chars)
RECURSIVE LStrip(_, _)
LStrip(s, chars) ==
    IF s # <<>> /\ Head(s) \in chars THEN LStrip(Tail(s), chars) ELSE s

\* str.rstrip(chars)
RECURSIVE RStrip(_, _)
RStrip(s, chars) ==
    IF s # <<>> /\ s[Len(s)] \in chars THEN RStrip(SubSeq(s, 1, Len(s) - 1), chars) ELSE s

\* str.strip()
Strip(s) == RStrip(LStrip(s, Spaces), Spaces)

\* str.startswith(p)
StartsWith(s, p) == Len(s) >= Len(p) /\ SubSeq(s, 1, Len(p)) = p

\* the positions (1-based) at which sub occurs in s
Occurrences(sub, s) ==
    {p \in 1..(Len(s) - Len(sub) + 1) : SubSeq(s, p, p + Len(sub) - 1) = sub}

\* sub in s
Contains(sub, s) == Occurrences(sub, s) # {}

\* s.split(sep, 1)[1] for a one-character sep that occurs in s
AfterFirst(s, sep) ==
    DropFirst(s, CHOOSE p \in 1..Len(s) : s[p] = sep /\ \A q \in 1..(p - 1) : s[q] # sep)

\* the longest run of digits at the start of s
RECURSIVE DigitRun(_)
DigitRun(s) ==
    IF s # <<>> /\ Head(s) \in Digits THEN <<Head(s)>> \o DigitRun(Tail(s)) ELSE <<>>

\* re.search(prefix + r'(\d+)', line, re.IGNORECASE): the positions of a match
IdMatches(prefix, line) ==
    {p \in Occurrences(Lower(prefix), Lower(line)) :
        p + Len(prefix) <= Len(line) /\ line[p + Len(prefix)] \in Digits}

\* match.group(1) of the leftmost match
IdDigits(prefix, line) ==
    LET p == CHOOSE q \in IdMatches(prefix, line) : \A r \in IdMatches(prefix, line) : q <= r
    IN  DigitRun(DropFirst(line, p + Len(prefix) - 1))

\* '\n'.join(lines)
RECURSIVE JoinLines(_)
JoinLines(ls) ==
    IF ls = <<>> THEN <<>>
    ELSE IF Len(ls) = 1 THEN ls[1]
    ELSE ls[1] \o <<"\n">> \o JoinLines(Tail(ls))

----------------------------------------------------------------------------
(* TestCaseGenerator._parse_test_cases *)

component_name == <<"l","o","g","i","n">>

\* The lines a completion text is drawn from: two headers, the four field
\* lines, the steps line, step bullets (one holding the word "step"), a blank
\* line and a line of none of these kinds
TCLineSet ==
    { <<"T","C","1">>,
      <<" ","t","c","2","0",":"," ","b">>,
      <<"N","a","m","e",":"," ","n">>,
      <<"D","e","s","c","r","i","p","t","i","o","n",":"," ","d">>,
      <<"I","n","p","u","t",":","i">>,
      <<"E","x","p","e","c","t","e","d",":"," ","e">>,
      <<"S","t","e","p","s">>,
      <<"-"," ","g","o">>,
      <<"1","."," ","r","u","n">>,
      <<"-"," ","s","t","e","p"," ","2">>,
      <<>>,
      <<"m","o","r","e">> }

\* A line with a TC<digits> pattern in it
IsTCHeader(line) == IdMatches(<<"T","C">>, line) # {}

\* The record opened at lines 207-217
NewTest(line) ==
    [ id              |-> <<"T","C">> \o IdDigits(<<"T","C">>, line),
      component       |-> component_name,
      name            |-> <<>>,
      description     |-> <<>>,
      input_data      |-> <<>>,
      expected_output |-> <<>>,
      test_steps      |-> <<>>,
      content         |-> line ]

\* The record appended at lines 257-266
DefaultTest(text) ==
    [ id              |-> <<"T","C","1">>,
      component       |-> component_name,
      name            |-> <<"T","e","s","t"," ">> \o component_name,
      description     |-> Take(text, 200),
      input_data      |-> <<"N","/","A">>,
      expected_output |-> <<"N","/","A">>,
      test_steps      |-> <<>>,
      content         |-> text ]

HasColon(line) == Contains(<<":">>, line)
HasWord(w, line) == Contains(w, Lower(line))

\* Lines 219-246: a line inside an open record; st = [test, field]
TCFieldLine(st, line) ==
    LET t == st.test
        f == st.field
    IN
    IF HasWord(<<"n","a","m","e">>, line) /\ HasColon(line)
    THEN [test |-> [t EXCEPT !.name = Strip(AfterFirst(line, ":"))], field |-> "name"]
    ELSE IF HasWord(<<"d","e","s","c","r","i","p","t","i","o","n">>, line) /\ HasColon(line)
    THEN [test |-> [t EXCEPT !.description = Strip(AfterFirst(line, ":"))], field |-> "description"]
    ELSE IF HasWord(<<"i","n","p","u","t">>, line) /\ HasColon(line)
    THEN [test |-> [t EXCEPT !.input_data = Strip(AfterFirst(line, ":"))], field |-> "input"]
    ELSE IF HasWord(<<"e","x","p","e","c","t","e","d">>, line) /\ HasColon(line)
    THEN [test |-> [t EXCEPT !.expected_output = Strip(AfterFirst(line, ":"))], field |-> "expected"]
    ELSE IF HasWord(<<"s","t","e","p">>, line)
    THEN [test |-> t, field |-> "steps"]
    ELSE IF f = "steps" /\ (Head(line) = "-" \/ Head(line) \in Digits)
    THEN [test |-> [t EXCEPT !.test_steps =
                        Append(@, LStrip(LStrip(line, {"-", " "}), Digits \cup {".", " "}))],
          field |-> f]
    ELSE IF f # "none"
    THEN [test |-> (IF f = "description" THEN [t EXCEPT !.description = @ \o <<" ">> \o line]
                    ELSE IF f = "input" THEN [t EXCEPT !.input_data = @ \o <<" ">> \o line]
                    ELSE IF f = "expected" THEN [t EXCEPT !.expected_output = @ \o <<" ">> \o line]
                    ELSE t),
          field |-> f]
    ELSE [test |-> [t EXCEPT !.content = @ \o <<"\n">> \o line], field |-> f]

\* Append the open record, if any (lines 205-206)
WithCurrent(list, cur) == IF cur # <<>> THEN Append(list, cur[1]) ELSE list

\* Lines 248-253: the last record, then the truncation to max_tests
TCClose(list, cur, m) ==
    Take(IF cur # <<>> /\ Len(list) < m THEN Append(list, cur[1]) ELSE list, m)

\* Lines 255-266: the default record of an empty result
TCNoDefault(list, text) == list

TCDefault(list, text) == IF list = <<>> THEN <<DefaultTest(text)>> ELSE list

TCInit ==
    /\ tc_lines \in UNION {[1..n -> TCLineSet] : n \in 1..MaxLines}
    /\ max_tests \in 0..MaxTests
    /\ tc_pos = 0
    /\ tc_pc = "loop"
    /\ current_test = <<>>
    /\ current_field = "none"
    /\ test_cases = <<>>

TCIdle ==
    /\ tc_lines = << <<>> >>
    /\ max_tests = 0
    /\ tc_pos = 0
    /\ tc_pc = "idle"
    /\ current_test = <<>>
    /\ current_field = "none"
    /\ test_cases = <<>>

\* One iteration of the loop of lines 192-246
TCParseLine ==
    /\ tc_pc = "loop"
    /\ tc_pos < Len(tc_lines)
    /\ LET line == Strip(tc_lines[tc_pos + 1]) IN
       /\ tc_pos' = tc_pos + 1
       /\ IF line = <<>>
          THEN UNCHANGED <<tc_pc, current_test, current_field, test_cases>>
          ELSE IF IsTCHeader(line)
          THEN IF Len(test_cases) >= max_tests
               THEN /\ tc_pc' = "after"
                    /\ UNCHANGED <<current_test, current_field, test_cases>>
               ELSE /\ test_cases' = WithCurrent(test_cases, current_test)
                    /\ current_test' = <<NewTest(line)>>
                    /\ current_field' = "none"
                    /\ UNCHANGED tc_pc
          ELSE IF current_test # <<>>
          THEN LET st == TCFieldLine([test |-> current_test[1], field |-> current_field], line)
               IN  /\ current_test' = <<st.test>>
                   /\ current_field' = st.field
                   /\ UNCHANGED <<tc_pc, test_cases>>
          ELSE UNCHANGED <<tc_pc, current_test, current_field, test_cases>>
    /\ UNCHANGED <<tc_lines, max_tests>>
    /\ UNCHANGED <<reqVars, llmVars, kbVars, genVars, desVars>>

\* The loop ran out of lines
TCEndOfInput ==
    /\ tc_pc = "loop"
    /\ tc_pos = Len(tc_lines)
    /\ tc_pc' = "after"
    /\ UNCHANGED <<tc_lines, max_tests, tc_pos, current_test, current_field, test_cases>>
    /\ UNCHANGED <<reqVars, llmVars, kbVars, genVars, desVars>>

\* Lines 248-268
TCReturn ==
    /\ tc_pc = "after"
    /\ test_cases' = TCDefault(TCClose(test_cases, current_test, max_tests), JoinLines(tc_lines))
    /\ tc_pc' = "done"
    /\ UNCHANGED <<tc_lines, max_tests, tc_pos, current_test, current_field>>
    /\ UNCHANGED <<reqVars, llmVars, kbVars, genVars, desVars>>

TCNext == TCParseLine \/ TCEndOfInput \/ TCReturn

----------------------------------------------------------------------------
(* ReverseEngineer._parse_requirements_response *)

MaxReqLines == 4

\* The lines a requirements text is drawn from
ReqLineSet ==
    { <<"F","R","1",":"," ","L","o","g","i","n">>,
      <<"U","s","e","r","s"," ","c","a","n"," ","l","o","g"," ","i","n",".">>,
      <<"N","F","R","1",":"," ","P","e","r","f">>,
      <<"R","e","s","p","o","n","s","e"," ","u","n","d","e","r"," ","2","0","0","m","s",".">>,
      <<"N","o","n","-","F","u","n","c","t","i","o","n","a","l"," ","R","e","q","u","i","r","e","m","e","n","t","s">>,
      <<"f","r","2"," ","P","a","y">>,
      <<"N","o","n","-","F","u","n","c","t","i","o","n","a","l"," ","R","e","q","u","i","r","e","m","e","n","t"," ","N","F","R","2">>,
      <<>> }

FRWord  == <<"F","R">>
NFRWord == <<"N","F","R">>

\* Line 244: the condition of the FR branch
IsFRLine(line) ==
    Contains(<<"F","U","N","C","T","I","O","N","A","L"," ","R","E","Q","U","I","R","E","M","E","N","T">>, Upper(line)) \/ StartsWith(Upper(line), FRWord)

\* Line 259: the condition of the NFR branch
IsNFRLine(line) ==
    Contains(<<"N","O","N","-","F","U","N","C","T","I","O","N","A","L"," ","R","E","Q","U","I","R","E","M","E","N","T">>, Upper(line)) \/ StartsWith(Upper(line), NFRWord)

\* Lines 253-258 and 267-272
NewReq(prefix, line) ==
    [ id          |-> prefix \o IdDigits(prefix, line),
      title       |-> line,
      description |-> <<>>,
      content     |-> <<>> ]

\* Lines 289-294
DefaultReq(text) ==
    [ id          |-> <<"F","R","1">>,
      title       |-> <<"F","u","n","c","t","i","o","n","a","l"," ","R","e","q","u","i","r","e","m","e","n","t"," ","1">>,
      description |-> Take(text, 200),
      content     |-> text ]

\* Lines 273-278: a line absorbed by the open record
Absorb(req, line) ==
    IF req.description # <<>>
    THEN [req EXCEPT !.content = @ \o <<"\n">> \o line]
    ELSE [req EXCEPT !.description = line, !.content = line]

\* Lines 251-252: the list an FR header closes the open record into
CloseOnFRHeader(lists, cur) ==
    IF cur # <<>> THEN [lists EXCEPT !.fr = Append(@, cur[1])] ELSE lists

\* An NFR header that drops the open record
CloseOnNFRHeaderDropping(lists, cur) == lists

\* Lines 265-266: the list an NFR header closes the open record into
CloseOnNFRHeader(lists, cur) ==
    IF cur # <<>> THEN [lists EXCEPT !.nfr = Append(@, cur[1])] ELSE lists

\* An end of input that closes the last open record into the NFR list whatever
\* the tag
CloseAtEndAnyTag(lists, cur, section) ==
    IF cur = <<>> THEN lists ELSE [lists EXCEPT !.nfr = Append(@, cur[1])]

\* Lines 280-285: the list the last open record is closed into
CloseAtEnd(lists, cur, section) ==
    IF cur = <<>> THEN lists
    ELSE IF section = "FR" THEN [lists EXCEPT !.fr = Append(@, cur[1])]
    ELSE [lists EXCEPT !.nfr = Append(@, cur[1])]

\* Lines 287-294
ReqDefault(lists, text) ==
    IF lists.fr = <<>> /\ lists.nfr = <<>>
    THEN [lists EXCEPT !.fr = <<DefaultReq(text)>>]
    ELSE lists

ReqInit ==
    /\ req_lines \in UNION {[1..n -> ReqLineSet] : n \in 1..MaxReqLines}
    /\ req_pos = 0
    /\ req_pc = "loop"
    /\ current_section = "none"
    /\ current_req = <<>>
    /\ functional_requirements = <<>>
    /\ non_functional_requirements = <<>>

ReqIdle ==
    /\ req_lines = << <<>> >>
    /\ req_pos = 0
    /\ req_pc = "idle"
    /\ current_section = "none"
    /\ current_req = <<>>
    /\ functional_requirements = <<>>
    /\ non_functional_requirements = <<>>

ReqLists == [fr |-> functional_requirements, nfr |-> non_functional_requirements]

\* One iteration of the loop of lines 238-278
ReqParseLine ==
    /\ req_pc = "loop"
    /\ req_pos < Len(req_lines)
    /\ LET line == Strip(req_lines[req_pos + 1]) IN
       /\ req_pos' = req_pos + 1
       /\ IF line = <<>>
          THEN UNCHANGED <<current_section, current_req,
                           functional_requirements, non_functional_requirements>>
          ELSE IF IsFRLine(line)
          THEN /\ current_section' = "FR"
               /\ IF IdMatches(FRWord, line) # {}
                  THEN /\ functional_requirements' = CloseOnFRHeader(ReqLists, current_req).fr
                       /\ non_functional_requirements' = CloseOnFRHeader(ReqLists, current_req).nfr
                       /\ current_req' = <<NewReq(FRWord, line)>>
                  ELSE UNCHANGED <<current_req, functional_requirements,
                                   non_functional_requirements>>
          ELSE IF IsNFRLine(line)
          THEN /\ current_section' = "NFR"
               /\ IF IdMatches(NFRWord, line) # {}
                  THEN /\ functional_requirements' = CloseOnNFRHeader(ReqLists, current_req).fr
                       /\ non_functional_requirements' = CloseOnNFRHeader(ReqLists, current_req).nfr
                       /\ current_req' = <<NewReq(NFRWord, line)>>
                  ELSE UNCHANGED <<current_req, functional_requirements,
                                   non_functional_requirements>>
          ELSE IF current_req # <<>>
          THEN /\ current_req' = <<Absorb(current_req[1], line)>>
               /\ UNCHANGED <<current_section, functional_requirements,
                               non_functional_requirements>>
          ELSE UNCHANGED <<current_section, current_req,
                           functional_requirements, non_functional_requirements>>
    /\ UNCHANGED <<req_lines, req_pc>>
    /\ UNCHANGED <<tcVars, llmVars, kbVars, genVars, desVars>>

\* Lines 280-300: the loop is over
ReqReturn ==
    /\ req_pc = "loop"
    /\ req_pos = Len(req_lines)
    /\ LET closed == ReqDefault(CloseAtEnd(ReqLists, current_req, current_section),
                                JoinLines(req_lines))
       IN  /\ functional_requirements' = closed.fr
           /\ non_functional_requirements' = closed.nfr
    /\ req_pc' = "done"
    /\ UNCHANGED <<req_lines, req_pos, current_section, current_req>>
    /\ UNCHANGED <<tcVars, llmVars, kbVars, genVars, desVars>>

ReqNext == ReqParseLine \/ ReqReturn

----------------------------------------------------------------------------
(* KnowledgeBaseBuilder._are_sections_related_llm *)

MaxRespLen == 4

\* What llm_client.invoke does: it returns a text, or it raises
Answer(text) == [ok |-> TRUE, text |-> text]
Raised == [ok |-> FALSE, text |-> <<>>]

YES == <<"Y","E","S">>

RespAlphabet == {"Y","y","E","e","S","s"," ","N"}
Responses ==
    {Raised} \cup {Answer(t) : t \in UNION {[1..n -> RespAlphabet] : n \in 0..MaxRespLen}}

\* Lines 427-441: the answer parsed inside the try, False from the except
AreSectionsRelatedFailOpen(response) ==
    IF response.ok THEN StartsWith(Upper(Strip(response.text)), YES) ELSE TRUE

AreSectionsRelatedLLM(response) ==
    IF response.ok THEN StartsWith(Upper(Strip(response.text)), YES) ELSE FALSE

LLMInit ==
    /\ llm_response \in Responses
    /\ llm_pc = "call"
    /\ llm_result = FALSE

LLMIdle ==
    /\ llm_response = Raised
    /\ llm_pc = "idle"
    /\ llm_result = FALSE

\* One call of _are_sections_related_llm
LLMReturn ==
    /\ llm_pc = "call"
    /\ llm_result' = AreSectionsRelatedLLM(llm_response)
    /\ llm_pc' = "returned"
    /\ UNCHANGED llm_response
    /\ UNCHANGED <<tcVars, reqVars, kbVars, genVars, desVars>>

LLMNext == LLMReturn

----------------------------------------------------------------------------
(* KnowledgeBaseBuilder.build: the entity builders *)

\* The requirement, design, code and test-case sections of one input together
MaxSections == 5

DigitChars == <<"0","1","2","3","4","5","6","7","8","9">>

\* str(n) for n >= 0
RECURSIVE Decimal(_)
Decimal(n) ==
    IF n < 10 THEN <<DigitChars[n + 1]>>
    ELSE Decimal(n \div 10) \o <<DigitChars[(n % 10) + 1]>>

CodeNames == { <<"l","o","g","i","n">> }
Components == { <<"L","o","g","i","n","C","o","m","p","o","n","e","n","t">> }
ContextKeys == <<"background", "executive_summary", "project_type">>

\* The sections of one input of the builds without a client
MaxFallbackSections == 4

\* The names and components of the builds without a client: a name in another
\* case than the component's, a name the component does not hold, and what
\* func.get('name', '') and test.get('component', '') give when the key is absent
FallbackNames == { <<"L","O","G","I","N">>, <<"p","a","y">>, <<>> }
FallbackComponents == { <<"L","o","g","i","n","C","o","m","p","o","n","e","n","t">>, <<>> }

\* Input items: requirement i of a list, design section i of a list
ReqItems(prefix, n) == [i \in 1..n |-> [id |-> prefix \o Decimal(i)]]
DesignItems(n) == [i \in 1..n |-> [title |-> <<"D">> \o Decimal(i)]]

\* The i-th function (or class) of a file starts at line i, which tells the
\* items of one list apart
Named(ns) == [i \in 1..Len(ns) |-> [name |-> ns[i], start_line |-> i]]

\* The lists of at most n functions (or classes) named from names
NameLists(names, n) == UNION {{Named(ns) : ns \in [1..a -> names]} : a \in 0..n}

\* The inputs of one file of parsed code with at most n sections (its own included)
FileInputs(names, n) ==
    UNION {{[functions |-> fs, classes |-> cs] : cs \in NameLists(names, n - 1 - Len(fs))} :
              fs \in NameLists(names, n - 1)}

FileSize(f) == 1 + Len(f.functions) + Len(f.classes)

\* The parsed-code mappings (in iteration order) with at most n sections
RECURSIVE CodeInputs(_, _)
CodeInputs(names, n) ==
    {<<>>} \cup UNION {{<<f>> \o rest : rest \in CodeInputs(names, n - FileSize(f))} :
                          f \in FileInputs(names, n)}

\* The i-th test of a file's list has the id TC<i>
Numbered(cs) == [i \in 1..Len(cs) |-> [id |-> <<"T","C">> \o Decimal(i), component |-> cs[i]]]

\* The test-case mappings (in iteration order) with at most n tests; a file that
\* is a key has at least one test (src/test_case_generator.py, lines 72-73)
TestLists(comps, n) == UNION {{Numbered(cs) : cs \in [1..k -> comps]} : k \in 1..n}

RECURSIVE TestInputs(_, _)
TestInputs(comps, n) ==
    {<<>>} \cup UNION {{<<ts>> \o rest : rest \in TestInputs(comps, n - Len(ts))} :
                          ts \in TestLists(comps, n)}

RECURSIVE SumLen(_)
SumLen(ss) == IF ss = <<>> THEN 0 ELSE Len(Head(ss)) + SumLen(Tail(ss))

RECURSIVE CodeSize(_)
CodeSize(files) == IF files = <<>> THEN 0 ELSE FileSize(Head(files)) + CodeSize(Tail(files))

\* The arguments of build() that make at most n sections, given the context, the
\* numbers of FRs, NFRs and design sections, then the code
InputsWithCode(ctx, f, nf, d, code, comps, n) ==
    {[context |-> ctx, fr |-> ReqItems(<<"F","R">>, f), nfr |-> ReqItems(<<"N","F","R">>, nf),
      design |-> DesignItems(d), code |-> code, test_cases |-> tests] :
        tests \in TestInputs(comps, n)}

InputsWithDesign(ctx, f, nf, d, names, comps, n) ==
    UNION {InputsWithCode(ctx, f, nf, d, code, comps, n - CodeSize(code)) :
              code \in CodeInputs(names, n)}

InputsWithNfr(ctx, f, nf, names, comps, n) ==
    UNION {InputsWithDesign(ctx, f, nf, d, names, comps, n - d) : d \in 0..n}

InputsWithFr(ctx, f, names, comps, n) ==
    UNION {InputsWithNfr(ctx, f, nf, names, comps, n - nf) : nf \in 0..n}

InputsWithContext(ctx, names, comps, n) ==
    UNION {InputsWithFr(ctx, f, names, comps, n - f) : f \in 0..n}

\* The arguments of build(): the keys of the context that are set (by their place
\* in ContextKeys), the requirement and design lists, the code and the test cases
KBInputs ==
    UNION {InputsWithContext(ctx, CodeNames, Components, MaxSections - Cardinality(ctx)) :
              ctx \in SUBSET {1, 2, 3}}

\* The sections of one input of the builds that are run twice
MaxRunSections == 4

\* The arguments of the builds that are run twice: at most one context key
RunInputs ==
    UNION {InputsWithContext(ctx, CodeNames, Components, MaxRunSections - Cardinality(ctx)) :
              ctx \in SUBSET {1}}

\* The arguments of the builds without a client: no context, more names
FallbackInputs == InputsWithContext({}, FallbackNames, FallbackComponents, MaxFallbackSections)

\* str(uuid.uuid4()) of the n-th call: distinct calls give distinct identifiers
Uuid4(n) == n

\* Lines 95-123: one section per key of the context that is set
RECURSIVE BuildContextSections(_, _, _)
BuildContextSections(ctx, key, base) ==
    IF key > 3 THEN <<>>
    ELSE IF key \in ctx
    THEN <<[id |-> Uuid4(base + 1), type |-> ContextKeys[key]]>>
            \o BuildContextSections(ctx, key + 1, base + 1)
    ELSE BuildContextSections(ctx, key + 1, base)

\* Lines 125-141
BuildFrSectionsOneUuid(items, base) ==
    [i \in 1..Len(items) |-> [id |-> Uuid4(base + 1), fr_id |-> items[i].id]]

BuildFrSections(items, base) ==
    [i \in 1..Len(items) |-> [id |-> Uuid4(base + i), fr_id |-> items[i].id]]

\* Lines 143-159
BuildNfrSectionsReversed(items, base) ==
    [i \in 1..Len(items) |->
        [id |-> Uuid4(base + i), nfr_id |-> items[Len(items) + 1 - i].id]]

BuildNfrSections(items, base) ==
    [i \in 1..Len(items) |-> [id |-> Uuid4(base + i), nfr_id |-> items[i].id]]

\* Lines 161-175
BuildDesignSections(items, base) ==
    [i \in 1..Len(items) |->
        [id |-> Uuid4(base + i), des_id |-> <<"D","E","S">> \o Decimal(i), title |-> items[i].title]]

\* Lines 184-228: the sections of one file, file_path being its place in the mapping
FileSections(f, path, base, code_idx) ==
    <<[id |-> Uuid4(base + 1), code_id |-> <<"C","O","D","E">> \o Decimal(code_idx),
       file_path |-> path, type |-> "file", name |-> <<>>, start_line |-> 0]>>
    \o [i \in 1..Len(f.functions) |->
          [id |-> Uuid4(base + 1 + i), code_id |-> <<"C","O","D","E">> \o Decimal(code_idx + i),
           file_path |-> path, type |-> "function", name |-> f.functions[i].name,
           start_line |-> f.functions[i].start_line]]
    \o [i \in 1..Len(f.classes) |->
          [id |-> Uuid4(base + 1 + Len(f.functions) + i),
           code_id |-> <<"C","O","D","E">> \o Decimal(code_idx + Len(f.functions) + i),
           file_path |-> path, type |-> "class", name |-> f.classes[i].name,
           start_line |-> f.classes[i].start_line]]

\* Lines 177-230
RECURSIVE BuildCodeSections(_, _, _, _)
BuildCodeSections(files, path, base, code_idx) ==
    IF files = <<>> THEN <<>>
    ELSE FileSections(Head(files), path, base, code_idx)
         \o BuildCodeSections(Tail(files), path + 1, base + FileSize(Head(files)),
                              code_idx + FileSize(Head(files)))

\* Lines 232-254
RECURSIVE BuildTestCaseSections(_, _, _)
BuildTestCaseSections(files, path, base) ==
    IF files = <<>> THEN <<>>
    ELSE [i \in 1..Len(Head(files)) |->
            [id |-> Uuid4(base + i), tc_id |-> Head(files)[i].id,
             component |-> Head(files)[i].component, file_path |-> path]]
         \o BuildTestCaseSections(Tail(files), path + 1, base + Len(Head(files)))

----------------------------------------------------------------------------
(* KnowledgeBaseBuilder._build_relationships and its fallback *)

NoRelationships ==
    [Req2Des |-> <<>>, Req2Code |-> <<>>, Des2Code |-> <<>>, Code2TC |-> <<>>, Req2TC |-> <<>>]

NoSections ==
    [Context |-> <<>>, FR |-> <<>>, NFR |-> <<>>, Design |-> <<>>, Code |-> <<>>, TestCase |-> <<>>]

\* The six loops of _build_relationships, in program order
Loops == <<"Req2Des_FR", "Req2Des_NFR", "Req2Code", "Des2Code", "Code2TC", "Req2TC">>

\* The list the outer (or, for a code section, type-filtered) and the inner loop run over
LeftOfReq2CodeAllReqs(loop, g) ==
    CASE loop = "Req2Des_FR"  -> g.FR
      [] loop = "Req2Des_NFR" -> g.NFR
      [] loop = "Req2Code"    -> g.FR \o g.NFR
      [] loop = "Des2Code"    -> g.Design
      [] loop = "Code2TC"     -> g.Code
      [] loop = "Req2TC"      -> g.FR

LeftOf(loop, g) ==
    CASE loop = "Req2Des_FR"  -> g.FR
      [] loop = "Req2Des_NFR" -> g.NFR
      [] loop = "Req2Code"    -> g.FR
      [] loop = "Des2Code"    -> g.Design
      [] loop = "Code2TC"     -> g.Code
      [] loop = "Req2TC"      -> g.FR

RightOf(loop, g) ==
    CASE loop = "Req2Des_FR"  -> g.Design
      [] loop = "Req2Des_NFR" -> g.Design
      [] loop = "Req2Code"    -> g.Code
      [] loop = "Des2Code"    -> g.Code
      [] loop = "Code2TC"     -> g.TestCase
      [] loop = "Req2TC"      -> g.TestCase

\* Lines 320, 338, 354 and 511: code.get('type') in ['function', 'class']
IsFunctionOrClassAnyType(code) == TRUE

IsFunctionOrClass(code) == code.type \in {"function", "class"}

\* Whether the loop queries the pair at all
Queries(loop, a, b) ==
    CASE loop \in {"Req2Code", "Des2Code"} -> IsFunctionOrClass(b)
      [] loop = "Code2TC"                  -> IsFunctionOrClass(a)
      [] OTHER                             -> TRUE

\* The category a loop appends to
CategoryOf(loop) ==
    IF loop \in {"Req2Des_FR", "Req2Des_NFR"} THEN "Req2Des" ELSE loop

\* The edge a loop appends for a related pair (lines 294-299, 309-314, 327-332,
\* 345-349, 362-366, 378-383)
EdgeOfSwappedDesign(loop, a, b) ==
    CASE loop = "Req2Des_FR" ->
            [requirement_id |-> a.id, requirement_type |-> "FR",
             design_id |-> a.id, relationship_type |-> "implements"]
      [] loop = "Req2Des_NFR" ->
            [requirement_id |-> a.id, requirement_type |-> "NFR",
             design_id |-> a.id, relationship_type |-> "constrains"]
      [] loop = "Req2Code" ->
            [requirement_id |-> a.id, requirement_type |-> "FR",
             code_id |-> b.id, relationship_type |-> "implements"]
      [] loop = "Des2Code" ->
            [design_id |-> a.id, code_id |-> b.id, relationship_type |-> "realized_by"]
      [] loop = "Code2TC" ->
            [code_id |-> a.id, test_case_id |-> b.id, relationship_type |-> "tested_by"]
      [] loop = "Req2TC" ->
            [requirement_id |-> a.id, requirement_type |-> "FR",
             test_case_id |-> b.id, relationship_type |-> "validated_by"]

EdgeOfAlwaysImplements(loop, a, b) ==
    CASE loop = "Req2Des_FR" ->
            [requirement_id |-> a.id, requirement_type |-> "FR",
             design_id |-> b.id, relationship_type |-> "implements"]
      [] loop = "Req2Des_NFR" ->
            [requirement_id |-> a.id, requirement_type |-> "NFR",
             design_id |-> b.id, relationship_type |-> "implements"]
      [] loop = "Req2Code" ->
            [requirement_id |-> a.id, requirement_type |-> "FR",
             code_id |-> b.id, relationship_type |-> "implements"]
      [] loop = "Des2Code" ->
            [design_id |-> a.id, code_id |-> b.id, relationship_type |-> "realized_by"]
      [] loop = "Code2TC" ->
            [code_id |-> a.id, test_case_id |-> b.id, relationship_type |-> "tested_by"]
      [] loop = "Req2TC" ->
            [requirement_id |-> a.id, requirement_type |-> "FR",
             test_case_id |-> b.id, relationship_type |-> "validated_by"]

EdgeOf(loop, a, b) ==
    CASE loop = "Req2Des_FR" ->
            [requirement_id |-> a.id, requirement_type |-> "FR",
             design_id |-> b.id, relationship_type |-> "implements"]
      [] loop = "Req2Des_NFR" ->
            [requirement_id |-> a.id, requirement_type |-> "NFR",
             design_id |-> b.id, relationship_type |-> "constrains"]
      [] loop = "Req2Code" ->
            [requirement_id |-> a.id, requirement_type |-> "FR",
             code_id |-> b.id, relationship_type |-> "implements"]
      [] loop = "Des2Code" ->
            [design_id |-> a.id, code_id |-> b.id, relationship_type |-> "realized_by"]
      [] loop = "Code2TC" ->
            [code_id |-> a.id, test_case_id |-> b.id, relationship_type |-> "tested_by"]
      [] loop = "Req2TC" ->
            [requirement_id |-> a.id, requirement_type |-> "FR",
             test_case_id |-> b.id, relationship_type |-> "validated_by"]

\* The if around every append: the edge is appended when the adapter returned True
WithEdgeOrNone(rels, loop, a, b, related) ==
    IF related THEN [rels EXCEPT ![CategoryOf(loop)] = Append(@, EdgeOf(loop, a, b))]
    ELSE NoRelationships

\* An append that also happens once the category has an edge
WithEdgeAfterAnEdge(rels, loop, a, b, related) ==
    IF related \/ rels[CategoryOf(loop)] # <<>>
    THEN [rels EXCEPT ![CategoryOf(loop)] = Append(@, EdgeOf(loop, a, b))]
    ELSE rels

WithEdgeAlways(rels, loop, a, b, related) ==
    [rels EXCEPT ![CategoryOf(loop)] = Append(@, EdgeOf(loop, a, b))]

WithEdge(rels, loop, a, b, related) ==
    IF related THEN [rels EXCEPT ![CategoryOf(loop)] = Append(@, EdgeOf(loop, a, b))]
    ELSE rels

\* Line 514: code_name and code_name.lower() in tc.get('component', '').lower()
NameMatchesCaseSensitive(code, tc) ==
    code.name # <<>> /\ Contains(code.name, tc.component)

NameMatches(code, tc) ==
    code.name # <<>> /\ Contains(Lower(code.name), Lower(tc.component))

\* Lines 509-519, for the code sections from position i on and the test cases from j on
RECURSIVE FallbackCode2TC(_, _, _, _)
FallbackCode2TC(codes, tcs, i, j) ==
    IF i > Len(codes) THEN <<>>
    ELSE IF j > Len(tcs) \/ ~IsFunctionOrClass(codes[i]) THEN FallbackCode2TC(codes, tcs, i + 1, 1)
    ELSE (IF NameMatches(codes[i], tcs[j])
          THEN <<[code_id |-> codes[i].id, test_case_id |-> tcs[j].id,
                  relationship_type |-> "tested_by"]>>
          ELSE <<>>)
         \o FallbackCode2TC(codes, tcs, i, j + 1)

\* Lines 483-521
BuildRelationshipsFallbackLastFR(g) ==
    [NoRelationships EXCEPT
        !.Req2Des = IF g.FR # <<>> /\ g.Design # <<>>
                    THEN <<[requirement_id |-> g.FR[Len(g.FR)].id, requirement_type |-> "FR",
                            design_id |-> g.Design[1].id, relationship_type |-> "implements"]>>
                    ELSE <<>>,
        !.Code2TC = FallbackCode2TC(g.Code, g.TestCase, 1, 1)]

BuildRelationshipsFallback(g) ==
    [NoRelationships EXCEPT
        !.Req2Des = IF g.FR # <<>> /\ g.Design # <<>>
                    THEN <<[requirement_id |-> g.FR[1].id, requirement_type |-> "FR",
                            design_id |-> g.Design[1].id, relationship_type |-> "implements"]>>
                    ELSE <<>>,
        !.Code2TC = FallbackCode2TC(g.Code, g.TestCase, 1, 1)]

\* What the classifier's completion call does for a pair in the build
KBResponses == {Answer(YES), Answer(<<"N","O">>), Raised}

\* The invocations an earlier build made for the i-th and j-th section of the
\* lists of a loop
EarlierCalls(loop, i, j) ==
    LET g == first_run[1].kb IN
    IF i > Len(LeftOf(loop, g)) \/ j > Len(RightOf(loop, g)) THEN {}
    ELSE {c \in {first_run[1].calls[k] : k \in DOMAIN first_run[1].calls} :
             /\ c.loop = loop
             /\ c.section1 = LeftOf(loop, g)[i].id
             /\ c.section2 = RightOf(loop, g)[j].id}

\* The classifier of a build that follows another on the same inputs is given
\* the same two summaries and the same relation as before: what it does leads
\* to the answer it led to before
ResponsesFor(loop, i, j) ==
    IF first_run = <<>> \/ first_run[1].answers = "any" \/ EarlierCalls(loop, i, j) = {}
    THEN KBResponses
    ELSE {r \in KBResponses :
             \E c \in EarlierCalls(loop, i, j) : AreSectionsRelatedLLM(r) = c.related}

KBInit ==
    /\ kb_in \in KBInputs
    /\ llm_client \in BOOLEAN
    /\ kb_pc = "context"
    /\ kb_k = 0
    /\ next_uuid = 0
    /\ kb = NoSections
    /\ relationships = NoRelationships
    /\ calls = <<>>
    /\ first_run = <<>>
    /\ every_call_failed = TRUE

KBIdle ==
    /\ kb_in = [context |-> {}, fr |-> <<>>, nfr |-> <<>>, design |-> <<>>,
                code |-> <<>>, test_cases |-> <<>>]
    /\ llm_client = FALSE
    /\ kb_pc = "idle"
    /\ kb_k = 0
    /\ next_uuid = 0
    /\ kb = NoSections
    /\ relationships = NoRelationships
    /\ calls = <<>>
    /\ first_run = <<>>
    /\ every_call_failed = TRUE

\* Lines 61-63
BuildContext ==
    /\ kb_pc = "context"
    /\ kb' = [kb EXCEPT !.Context = BuildContextSections(kb_in.context, 1, next_uuid)]
    /\ next_uuid' = next_uuid + Cardinality(kb_in.context)
    /\ kb_pc' = "requirements"
    /\ UNCHANGED <<kb_in, llm_client, first_run, every_call_failed, kb_k, relationships, calls>>
    /\ UNCHANGED <<tcVars, reqVars, llmVars, genVars, desVars>>

\* Lines 65-69
BuildRequirements ==
    /\ kb_pc = "requirements"
    /\ kb' = [kb EXCEPT !.FR = BuildFrSections(kb_in.fr, next_uuid),
                        !.NFR = BuildNfrSections(kb_in.nfr, next_uuid + Len(kb_in.fr))]
    /\ next_uuid' = next_uuid + Len(kb_in.fr) + Len(kb_in.nfr)
    /\ kb_pc' = "design"
    /\ UNCHANGED <<kb_in, llm_client, first_run, every_call_failed, kb_k, relationships, calls>>
    /\ UNCHANGED <<tcVars, reqVars, llmVars, genVars, desVars>>

\* Lines 71-73
BuildDesign ==
    /\ kb_pc = "design"
    /\ kb' = [kb EXCEPT !.Design = BuildDesignSections(kb_in.design, next_uuid)]
    /\ next_uuid' = next_uuid + Len(kb_in.design)
    /\ kb_pc' = "code"
    /\ UNCHANGED <<kb_in, llm_client, first_run, every_call_failed, kb_k, relationships, calls>>
    /\ UNCHANGED <<tcVars, reqVars, llmVars, genVars, desVars>>

\* Lines 75-77
BuildCode ==
    /\ kb_pc = "code"
    /\ kb' = [kb EXCEPT !.Code = BuildCodeSections(kb_in.code, 1, next_uuid, 1)]
    /\ next_uuid' = next_uuid + CodeSize(kb_in.code)
    /\ kb_pc' = "test_case"
    /\ UNCHANGED <<kb_in, llm_client, first_run, every_call_failed, kb_k, relationships, calls>>
    /\ UNCHANGED <<tcVars, reqVars, llmVars, genVars, desVars>>

\* Lines 79-81
BuildTestCases ==
    /\ kb_pc = "test_case"
    /\ kb' = [kb EXCEPT !.TestCase = BuildTestCaseSections(kb_in.test_cases, 1, next_uuid)]
    /\ next_uuid' = next_uuid + SumLen(kb_in.test_cases)
    /\ kb_pc' = "relationships"
    /\ UNCHANGED <<kb_in, llm_client, first_run, every_call_failed, kb_k, relationships, calls>>
    /\ UNCHANGED <<tcVars, reqVars, llmVars, genVars, desVars>>

\* Lines 276-280 and 91-93: no client, the fallback builds every list and build() returns
RelationshipsFallback ==
    /\ kb_pc = "relationships"
    /\ ~llm_client
    /\ relationships' = BuildRelationshipsFallback(kb)
    /\ kb_pc' = "done"
    /\ UNCHANGED <<kb_in, llm_client, first_run, every_call_failed, kb_k, next_uuid, kb, calls>>
    /\ UNCHANGED <<tcVars, reqVars, llmVars, genVars, desVars>>

\* Lines 276-285: a client exists, the first loop starts
RelationshipsStart ==
    /\ kb_pc = "relationships"
    /\ llm_client
    /\ kb_pc' = Loops[1]
    /\ kb_k' = 0
    /\ UNCHANGED <<kb_in, llm_client, first_run, every_call_failed, next_uuid, kb, relationships, calls>>
    /\ UNCHANGED <<tcVars, reqVars, llmVars, genVars, desVars>>

LoopIndex(loop) == CHOOSE i \in 1..6 : Loops[i] = loop
PairCount(loop, g) == Len(LeftOf(loop, g)) * Len(RightOf(loop, g))

\* One pair of the loop the build is in: the outer index moves slowest; a pair
\* that is queried goes through _are_sections_related_llm, whose response and
\* return value are those of the latest call
LoopPair ==
    /\ kb_pc \in {Loops[i] : i \in 1..6}
    /\ kb_k < PairCount(kb_pc, kb)
    /\ LET n == Len(RightOf(kb_pc, kb))
           i == (kb_k \div n) + 1
           j == (kb_k % n) + 1
           a == LeftOf(kb_pc, kb)[i]
           b == RightOf(kb_pc, kb)[j]
       IN  IF Queries(kb_pc, a, b)
           THEN \E response \in ResponsesFor(kb_pc, i, j) :
                   LET related == AreSectionsRelatedLLM(response) IN
                   /\ llm_response' = response
                   /\ llm_result' = related
                   /\ llm_pc' = "returned"
                   /\ calls' = Append(calls, [loop |-> kb_pc, section1 |-> a.id,
                                              section2 |-> b.id, related |-> related])
                   /\ relationships' = WithEdge(relationships, kb_pc, a, b, related)
                   /\ every_call_failed' = (every_call_failed /\ response = Raised)
           ELSE UNCHANGED <<llmVars, calls, relationships, every_call_failed>>
    /\ kb_k' = kb_k + 1
    /\ UNCHANGED <<kb_in, llm_client, first_run, kb_pc, next_uuid, kb>>
    /\ UNCHANGED <<tcVars, reqVars, genVars, desVars>>

\* An end of the loops that turns to the fallback when the classifier has given
\* no edge
LoopEndFallingBack ==
    /\ kb_pc \in {Loops[i] : i \in 1..6}
    /\ kb_k = PairCount(kb_pc, kb)
    /\ kb_pc' = IF LoopIndex(kb_pc) < 6 THEN Loops[LoopIndex(kb_pc) + 1] ELSE "done"
    /\ kb_k' = 0
    /\ relationships' = IF LoopIndex(kb_pc) = 6 /\ relationships = NoRelationships
                        THEN BuildRelationshipsFallback(kb)
                        ELSE relationships
    /\ UNCHANGED <<kb_in, llm_client, first_run, every_call_failed, next_uuid, kb, calls>>
    /\ UNCHANGED <<tcVars, reqVars, llmVars, genVars, desVars>>

\* The loop is over: the next loop starts, or build() returns (lines 385-386, 91-93)
LoopEnd ==
    /\ kb_pc \in {Loops[i] : i \in 1..6}
    /\ kb_k = PairCount(kb_pc, kb)
    /\ kb_pc' = IF LoopIndex(kb_pc) < 6 THEN Loops[LoopIndex(kb_pc) + 1] ELSE "done"
    /\ kb_k' = 0
    /\ UNCHANGED <<kb_in, llm_client, first_run, every_call_failed, next_uuid, kb, relationships, calls>>
    /\ UNCHANGED <<tcVars, reqVars, llmVars, genVars, desVars>>

\* Lines 37-59 again, had the edge lists been kept on the builder between calls
BuildAgainKeepingEdges ==
    /\ kb_pc = "done"
    /\ first_run = <<>>
    /\ first_run' = <<[kb |-> kb, relationships |-> relationships, calls |-> calls,
                      answers |-> "same"]>>
    /\ kb_pc' = "context"
    /\ kb_k' = 0
    /\ kb' = NoSections
    /\ calls' = <<>>
    /\ every_call_failed' = TRUE
    /\ UNCHANGED <<kb_in, llm_client, next_uuid, relationships>>
    /\ UNCHANGED <<tcVars, reqVars, llmVars, genVars, desVars>>

\* Lines 37-59 again: build() is called once more with the same arguments on
\* the same builder; its lists are new ones, uuid4 goes on from where it was,
\* and the caller keeps the graph the earlier call returned
BuildAgain ==
    /\ kb_pc = "done"
    /\ first_run = <<>>
    /\ first_run' = <<[kb |-> kb, relationships |-> relationships, calls |-> calls,
                      answers |-> "same"]>>
    /\ kb_pc' = "context"
    /\ kb_k' = 0
    /\ kb' = NoSections
    /\ relationships' = NoRelationships
    /\ calls' = <<>>
    /\ every_call_failed' = TRUE
    /\ UNCHANGED <<kb_in, llm_client, next_uuid>>
    /\ UNCHANGED <<tcVars, reqVars, llmVars, genVars, desVars>>

\* Lines 37-59 again: build() is called once more with the same arguments while
\* the classifier's completion call is free to respond differently to every
\* prompt
BuildAgainOtherAnswers ==
    /\ kb_pc = "done"
    /\ first_run = <<>>
    /\ first_run' = <<[kb |-> kb, relationships |-> relationships, calls |-> calls,
                      answers |-> "any"]>>
    /\ kb_pc' = "context"
    /\ kb_k' = 0
    /\ kb' = NoSections
    /\ relationships' = NoRelationships
    /\ calls' = <<>>
    /\ every_call_failed' = TRUE
    /\ UNCHANGED <<kb_in, llm_client, next_uuid>>
    /\ UNCHANGED <<tcVars, reqVars, llmVars, genVars, desVars>>

\* build() of a builder made without a client (llm_client is None)
FallbackInit ==
    /\ kb_in \in FallbackInputs
    /\ llm_client = FALSE
    /\ kb_pc = "context"
    /\ kb_k = 0
    /\ next_uuid = 0
    /\ kb = NoSections
    /\ relationships = NoRelationships
    /\ calls = <<>>
    /\ first_run = <<>>
    /\ every_call_failed = TRUE

FallbackNext ==
    \/ BuildContext
    \/ BuildRequirements
    \/ BuildDesign
    \/ BuildCode
    \/ BuildTestCases
    \/ RelationshipsFallback

KBNext ==
    \/ BuildContext
    \/ BuildRequirements
    \/ BuildDesign
    \/ BuildCode
    \/ BuildTestCases
    \/ RelationshipsFallback
    \/ RelationshipsStart
    \/ LoopPair
    \/ LoopEnd

----------------------------------------------------------------------------
(* TestCaseGenerator.generate_test_cases *)

\* The file, function and class entries of one parsed_code together
MaxGenSections == 4
\* The largest value of each of the three configured limits
MaxLimit == 2

\* core.settings: MAX_TOTAL_TEST_CASES, MAX_TEST_CASES_PER_FUNCTION and
\* MAX_TEST_CASES_PER_CLASS, lines 40, 53, 66, 91 and 143
Settings ==
    [MAX_TOTAL_TEST_CASES : 0..MaxLimit,
     MAX_TEST_CASES_PER_FUNCTION : 0..MaxLimit,
     MAX_TEST_CASES_PER_CLASS : 0..MaxLimit]

\* Lines 121-127 and 169-175: the lengths _parse_test_cases(...)[:max_tests] can
\* have: the parser returns between 1 and max(max_tests, 1) records; without a
\* client the text is the notice of lines 121-122, which has no TC<digits> line
\* and is parsed into the one default record
ParsedCounts(client, limit) ==
    IF limit = 0 THEN {0}
    ELSE IF client THEN 1..limit
    ELSE {1}

\* The n records returned for a component
TestsOf(name, n) == [k \in 1..n |-> [id |-> <<"T","C">> \o Decimal(k), component |-> name]]

GenInit ==
    /\ parsed_code \in CodeInputs(CodeNames, MaxGenSections)
    /\ settings \in Settings
    /\ gen_llm_client \in BOOLEAN
    /\ gen_pc = "files"
    /\ gen_file = 0
    /\ gen_item = 0
    /\ file_test_cases = <<>>
    /\ gen_test_cases = <<>>
    /\ total_test_cases = 0
    /\ generated = <<>>

GenIdle ==
    /\ parsed_code = <<>>
    /\ settings = [MAX_TOTAL_TEST_CASES |-> 0, MAX_TEST_CASES_PER_FUNCTION |-> 0,
                   MAX_TEST_CASES_PER_CLASS |-> 0]
    /\ gen_llm_client = FALSE
    /\ gen_pc = "idle"
    /\ gen_file = 0
    /\ gen_item = 0
    /\ file_test_cases = <<>>
    /\ gen_test_cases = <<>>
    /\ total_test_cases = 0
    /\ generated = <<>>

max_total == settings.MAX_TOTAL_TEST_CASES

\* Lines 42-43 and 78-79: the outer loop takes the next file, or the method returns
GenNextFile ==
    /\ gen_pc = "files"
    /\ IF gen_file < Len(parsed_code)
       THEN /\ gen_file' = gen_file + 1
            /\ gen_pc' = "functions"
       ELSE /\ gen_pc' = "done"
            /\ UNCHANGED gen_file
    /\ gen_item' = 0
    /\ file_test_cases' = <<>>
    /\ UNCHANGED <<parsed_code, settings, gen_llm_client, gen_test_cases, total_test_cases,
                   generated>>
    /\ UNCHANGED <<tcVars, reqVars, llmVars, kbVars, desVars>>

\* What one iteration of an inner loop does with the component it has taken:
\* the completion call raises (lines 124 and 172, no handler), or n tests come back
GenComponent(kind, item, limit) ==
    \/ /\ gen_llm_client
       /\ gen_pc' = "raised"
       /\ UNCHANGED <<gen_item, file_test_cases, total_test_cases>>
       /\ generated' = Append(generated, [file_path |-> gen_file, type |-> kind,
                                           start_line |-> item.start_line, tests |-> 0])
    \/ \E n \in ParsedCounts(gen_llm_client, limit) :
          /\ file_test_cases' = file_test_cases \o TestsOf(item.name, n)
          /\ total_test_cases' = total_test_cases + n
          /\ generated' = Append(generated, [file_path |-> gen_file, type |-> kind,
                                              start_line |-> item.start_line, tests |-> n])
          /\ gen_item' = gen_item + 1
          /\ UNCHANGED gen_pc

\* A function loop that does not test the running total
GenFunctionPastLimit ==
    /\ gen_pc = "functions"
    /\ gen_item < Len(parsed_code[gen_file].functions)
    /\ GenComponent("function", parsed_code[gen_file].functions[gen_item + 1],
                    settings.MAX_TEST_CASES_PER_FUNCTION)
    /\ UNCHANGED <<parsed_code, settings, gen_llm_client, gen_file, gen_test_cases>>
    /\ UNCHANGED <<tcVars, reqVars, llmVars, kbVars, desVars>>

\* Lines 46-55: one function of the file
GenFunction ==
    /\ gen_pc = "functions"
    /\ gen_item < Len(parsed_code[gen_file].functions)
    /\ total_test_cases < max_total
    /\ GenComponent("function", parsed_code[gen_file].functions[gen_item + 1],
                    settings.MAX_TEST_CASES_PER_FUNCTION)
    /\ UNCHANGED <<parsed_code, settings, gen_llm_client, gen_file, gen_test_cases>>
    /\ UNCHANGED <<tcVars, reqVars, llmVars, kbVars, desVars>>

\* Lines 46-49 and 57-58: the function loop is over or broken out of; at the
\* limit the outer loop is left at once, before line 72 stores the file's tests
GenFunctionsEnd ==
    /\ gen_pc = "functions"
    /\ gen_item = Len(parsed_code[gen_file].functions) \/ total_test_cases >= max_total
    /\ gen_pc' = IF total_test_cases >= max_total THEN "done" ELSE "classes"
    /\ gen_item' = 0
    /\ UNCHANGED <<parsed_code, settings, gen_llm_client, gen_file, file_test_cases,
                   gen_test_cases, total_test_cases, generated>>
    /\ UNCHANGED <<tcVars, reqVars, llmVars, kbVars, desVars>>

\* Lines 61-70: one class of the file
GenClass ==
    /\ gen_pc = "classes"
    /\ gen_item < Len(parsed_code[gen_file].classes)
    /\ total_test_cases < max_total
    /\ GenComponent("class", parsed_code[gen_file].classes[gen_item + 1],
                    settings.MAX_TEST_CASES_PER_CLASS)
    /\ UNCHANGED <<parsed_code, settings, gen_llm_client, gen_file, gen_test_cases>>
    /\ UNCHANGED <<tcVars, reqVars, llmVars, kbVars, desVars>>

\* Lines 61-64 and 72-76: the class loop is over or broken out of; the file's
\* tests are stored if there are any, and at the limit the outer loop is left
GenFileEnd ==
    /\ gen_pc = "classes"
    /\ gen_item = Len(parsed_code[gen_file].classes) \/ total_test_cases >= max_total
    /\ gen_test_cases' =
          IF file_test_cases # <<>>
          THEN Append(gen_test_cases, [file_path |-> gen_file, tests |-> file_test_cases])
          ELSE gen_test_cases
    /\ gen_pc' = IF total_test_cases >= max_total THEN "done" ELSE "files"
    /\ UNCHANGED <<parsed_code, settings, gen_llm_client, gen_file, gen_item, file_test_cases,
                   total_test_cases, generated>>
    /\ UNCHANGED <<tcVars, reqVars, llmVars, kbVars, desVars>>

GenNext ==
    \/ GenNextFile
    \/ GenFunction
    \/ GenFunctionsEnd
    \/ GenClass
    \/ GenFileEnd

----------------------------------------------------------------------------
(* ReverseEngineer._parse_design_response *)

\* The lines of one design text
MaxDesLines == 3

\* Line 194: len(line) < 100; line 219: design_text[:500]
HeaderLimit == 100
DescriptionLimit == 500

\* A line of upper-case letters that is as long as the limit of line 194
LongUpper == [i \in 1..HeaderLimit |-> "A"]

\* The lines a design text is made of: hash headers (one indented, one with two
\* marks, one with no title), an upper-case header, body lines with and
\* without letters, a blank line and the long upper-case line
DesLineSet ==
    { <<"#"," ","A">>, <<" ","#","t">>, <<"#","#","B">>, <<"#">>,
      <<"I","N","T","R","O">>,
      <<" ","b"," ","c">>, <<"1","2">>, <<>>, LongUpper }

\* str.isupper(): there is a cased character and no cased character is lower-case
IsUpper(s) ==
    /\ \E i \in DOMAIN s : LowerChar(s[i]) # s[i]
    /\ \A i \in DOMAIN s : UpperChar(s[i]) = s[i]

\* Line 194, on the stripped line
IsDesHeaderAnyLength(line) ==
    StartsWith(line, <<"#">>) \/ IsUpper(line)

IsDesHeader(line) ==
    StartsWith(line, <<"#">>) \/ (IsUpper(line) /\ Len(line) < HeaderLimit)

\* Lines 196-200 and 208-212: the section appended for a title and its body
SectionOf(title, content) ==
    [title |-> title, description |-> JoinLines(content), content |-> JoinLines(content)]

\* if current_section: None and the empty title are both false
Truthy(section) == section # <<>> /\ section[1] # <<>>

\* Lines 196-200 and 208-212
WithSection(secs, section, content) ==
    IF Truthy(section) THEN Append(secs, SectionOf(section[1], content)) ELSE secs

\* Lines 216-221
DefaultSection(design_text) ==
    [title |-> <<"T","e","c","h","n","i","c","a","l"," ","D","e","s","i","g","n">>,
     description |-> Take(design_text, DescriptionLimit),
     content |-> design_text]

DesInit ==
    /\ des_lines \in UNION {[1..n -> DesLineSet] : n \in 1..MaxDesLines}
    /\ des_pos = 0
    /\ des_pc = "loop"
    /\ des_section = <<>>
    /\ current_content = <<>>
    /\ sections = <<>>

DesIdle ==
    /\ des_lines = << <<>> >>
    /\ des_pos = 0
    /\ des_pc = "idle"
    /\ des_section = <<>>
    /\ current_content = <<>>
    /\ sections = <<>>

\* Lines 189-204: one iteration of the for loop
DesParseLine ==
    /\ des_pc = "loop"
    /\ des_pos < Len(des_lines)
    /\ LET line == Strip(des_lines[des_pos + 1]) IN
       IF line = <<>>
       THEN UNCHANGED <<des_section, current_content, sections>>
       ELSE IF IsDesHeader(line)
       THEN /\ sections' = WithSection(sections, des_section, current_content)
            /\ des_section' = <<Strip(LStrip(line, {"#"}))>>
            /\ current_content' = <<>>
       ELSE /\ current_content' = Append(current_content, line)
            /\ UNCHANGED <<des_section, sections>>
    /\ des_pos' = des_pos + 1
    /\ UNCHANGED <<des_lines, des_pc>>
    /\ UNCHANGED <<tcVars, reqVars, llmVars, kbVars, genVars>>

\* Line 189: the lines are exhausted
DesEndOfInput ==
    /\ des_pc = "loop"
    /\ des_pos = Len(des_lines)
    /\ des_pc' = "after"
    /\ UNCHANGED <<des_lines, des_pos, des_section, current_content, sections>>
    /\ UNCHANGED <<tcVars, reqVars, llmVars, kbVars, genVars>>

\* Lines 206-226: the last section, the default section, the return
DesReturn ==
    /\ des_pc = "after"
    /\ LET closed == WithSection(sections, des_section, current_content) IN
       sections' = IF closed = <<>> THEN <<DefaultSection(JoinLines(des_lines))>> ELSE closed
    /\ des_pc' = "done"
    /\ UNCHANGED <<des_lines, des_pos, des_section, current_content>>
    /\ UNCHANGED <<tcVars, reqVars, llmVars, kbVars, genVars>>

DesNext ==
    \/ DesParseLine
    \/ DesEndOfInput
    \/ DesReturn

----------------------------------------------------------------------------
(* The specifications: one per component, the others at rest *)

\* _parse_test_cases on every text and maximum within the bounds
TCSpecInit == TCInit /\ ReqIdle /\ LLMIdle /\ KBIdle /\ GenIdle /\ DesIdle
SpecTC == TCSpecInit /\ [][TCNext]_vars

\* _parse_requirements_response on every text within the bounds
ReqSpecInit == TCIdle /\ ReqInit /\ LLMIdle /\ KBIdle /\ GenIdle /\ DesIdle
SpecReq == ReqSpecInit /\ [][ReqNext]_vars

\* _are_sections_related_llm on every outcome of the completion call
LLMSpecInit == TCIdle /\ ReqIdle /\ LLMInit /\ KBIdle /\ GenIdle /\ DesIdle
SpecLLM == LLMSpecInit /\ [][LLMNext]_vars

\* build() on every input within the bounds, with and without a client
Init == TCIdle /\ ReqIdle /\ LLMIdle /\ KBInit /\ GenIdle /\ DesIdle
Next == KBNext
Spec == Init /\ [][Next]_vars

\* build() twice on the same inputs, for every input within the bound
RunsSpecInit ==
    /\ TCIdle /\ ReqIdle /\ LLMIdle /\ GenIdle /\ DesIdle
    /\ kb_in \in RunInputs
    /\ llm_client \in BOOLEAN
    /\ kb_pc = "context"
    /\ kb_k = 0
    /\ next_uuid = 0
    /\ kb = NoSections
    /\ relationships = NoRelationships
    /\ calls = <<>>
    /\ first_run = <<>>
    /\ every_call_failed = TRUE

RunsNext ==
    \/ BuildContext
    \/ BuildRequirements
    \/ BuildDesign
    \/ BuildCode
    \/ BuildTestCases
    \/ RelationshipsFallback
    \/ RelationshipsStart
    \/ LoopPair
    \/ LoopEnd
    \/ BuildAgain

SpecRuns == RunsSpecInit /\ [][RunsNext]_vars

\* build() twice on the same inputs with a classifier that may answer
\* differently the second time
OtherAnswersNext ==
    \/ BuildContext
    \/ BuildRequirements
    \/ BuildDesign
    \/ BuildCode
    \/ BuildTestCases
    \/ RelationshipsFallback
    \/ RelationshipsStart
    \/ LoopPair
    \/ LoopEnd
    \/ BuildAgainOtherAnswers

SpecOtherAnswers == RunsSpecInit /\ [][OtherAnswersNext]_vars

\* build() without a client, on inputs with several names and components
FallbackSpecInit == TCIdle /\ ReqIdle /\ LLMIdle /\ FallbackInit /\ GenIdle /\ DesIdle
SpecFallback == FallbackSpecInit /\ [][FallbackNext]_vars

\* generate_test_cases on every parsed code and configuration within the bounds
GenSpecInit == TCIdle /\ ReqIdle /\ LLMIdle /\ KBIdle /\ GenInit /\ DesIdle
SpecGen == GenSpecInit /\ [][GenNext]_vars

\* _parse_design_response on every text within the bounds
DesSpecInit == TCIdle /\ ReqIdle /\ LLMIdle /\ KBIdle /\ GenIdle /\ DesInit
SpecDes == DesSpecInit /\ [][DesNext]_vars

\* The three parsers, each on every text within its bounds
ParsersInit == TCSpecInit \/ ReqSpecInit \/ DesSpecInit
ParsersNext ==
    \/ TCParseLine
    \/ TCEndOfInput
    \/ TCReturn
    \/ ReqParseLine
    \/ ReqReturn
    \/ DesParseLine
    \/ DesEndOfInput
    \/ DesReturn
SpecParsers == ParsersInit /\ [][ParsersNext]_vars

----------------------------------------------------------------------------
(* Claims about _parse_test_cases (SpecTC) *)

Range(f) == {f[i] : i \in DOMAIN f}

\* The TC<digits> header lines of the text, in order
TCHeaderLines == SelectSeq([i \in 1..Len(tc_lines) |-> Strip(tc_lines[i])], IsTCHeader)

\* The returned list is the records of the first n header lines, in header order
FirstHeadersReturned(n) ==
    /\ Len(test_cases) = n
    /\ \A i \in 1..n :
          test_cases[i].id = <<"T","C">> \o IdDigits(<<"T","C">>, TCHeaderLines[i])

\* C1: with K header lines and a maximum M < K, the parser returns exactly M
\* records, those of the first M header lines in header order.
C1_FirstMRecords ==
    (tc_pc = "done" /\ Len(TCHeaderLines) > max_tests) => FirstHeadersReturned(max_tests)

\* C1 where the code meets it: the same statement for a maximum of at least 1
C1_FirstMRecordsPositiveMax ==
    (tc_pc = "done" /\ Len(TCHeaderLines) > max_tests /\ max_tests >= 1)
        => FirstHeadersReturned(max_tests)

\* C2: the returned list never has more than M records, whatever the text.
C2_NeverExceedsMax ==
    tc_pc = "done" => Len(test_cases) <= max_tests

\* C2 where the code meets it: the same statement for a maximum of at least 1
C2_NeverExceedsPositiveMax ==
    (tc_pc = "done" /\ max_tests >= 1) => Len(test_cases) <= max_tests

----------------------------------------------------------------------------
(* Claims about _parse_requirements_response (SpecReq) *)

\* The text of the example: four lines
C3Text == << <<"F","R","1",":"," ","L","o","g","i","n">>, <<"U","s","e","r","s"," ","c","a","n"," ","l","o","g"," ","i","n",".">>, <<"N","F","R","1",":"," ","P","e","r","f">>, <<"R","e","s","p","o","n","s","e"," ","u","n","d","e","r"," ","2","0","0","m","s",".">> >>

\* The stripped, non-blank lines of the text
ReqStripped == SelectSeq([i \in 1..Len(req_lines) |-> Strip(req_lines[i])], LAMBDA l : l # <<>>)

\* A line that opens an FR<digits> record, a line that opens an NFR<digits> record
OpensFR(line) == IsFRLine(line) /\ IdMatches(FRWord, line) # {}
OpensNFR(line) == ~IsFRLine(line) /\ IsNFRLine(line) /\ IdMatches(NFRWord, line) # {}

\* The lines that open a record, in order
ReqHeaders == SelectSeq(ReqStripped, LAMBDA l : OpensFR(l) \/ OpensNFR(l))

\* C3: a record opened by an FR<digits> header and followed by a record opened by
\* an NFR<digits> header is emitted in the functional list, and that NFR record in
\* the non-functional list; the four-line example yields one FR record (FR1,
\* "Users can log in.") and one NFR record (NFR1, "Response under 200ms.").
C3_FRThenNFR ==
    req_pc = "done" =>
        /\ \A i \in 1..(Len(ReqHeaders) - 1) :
              (OpensFR(ReqHeaders[i]) /\ OpensNFR(ReqHeaders[i + 1])) =>
                  /\ \E r \in Range(functional_requirements) : r.title = ReqHeaders[i]
                  /\ \E r \in Range(non_functional_requirements) : r.title = ReqHeaders[i + 1]
        /\ req_lines = C3Text =>
              /\ Len(functional_requirements) = 1
              /\ functional_requirements[1].id = <<"F","R","1">>
              /\ functional_requirements[1].description = <<"U","s","e","r","s"," ","c","a","n"," ","l","o","g"," ","i","n",".">>
              /\ Len(non_functional_requirements) = 1
              /\ non_functional_requirements[1].id = <<"N","F","R","1">>
              /\ non_functional_requirements[1].description = <<"R","e","s","p","o","n","s","e"," ","u","n","d","e","r"," ","2","0","0","m","s",".">>

----------------------------------------------------------------------------
(* Claims about _are_sections_related_llm (SpecLLM) *)

\* The text reads YES, in any case, after leading whitespace
AnswersYes(text) ==
    \E p \in 0..(Len(text) - 3) :
        /\ \A q \in 1..p : text[q] \in Spaces
        /\ UpperChar(text[p + 1]) = "Y"
        /\ UpperChar(text[p + 2]) = "E"
        /\ UpperChar(text[p + 3]) = "S"

\* C4: the adapter returns true only for a completion that returned a text which,
\* trimmed and upper-cased, begins with YES; false for every other text and
\* whenever the completion call raised.
C4_FailClosed ==
    llm_pc = "returned" =>
        (llm_result = TRUE <=> (llm_response.ok /\ AnswersYes(llm_response.text)))

C4_Witness ==
    /\ llm_pc = "returned"
    /\ ~llm_response.ok
    /\ llm_result = FALSE

----------------------------------------------------------------------------
(* Claims about build() (Spec) *)

Ids(secs) == {sec.id : sec \in Range(secs)}
FunctionsAndClasses == {c \in Range(kb.Code) : c.type = "function" \/ c.type = "class"}

\* The pairs of identifiers each of the six cross products is made of
ClaimedPairs(loop) ==
    CASE loop = "Req2Des_FR"  -> Ids(kb.FR) \X Ids(kb.Design)
      [] loop = "Req2Des_NFR" -> Ids(kb.NFR) \X Ids(kb.Design)
      [] loop = "Req2Code"    -> Ids(kb.FR) \X {c.id : c \in FunctionsAndClasses}
      [] loop = "Des2Code"    -> Ids(kb.Design) \X {c.id : c \in FunctionsAndClasses}
      [] loop = "Code2TC"     -> {c.id : c \in FunctionsAndClasses} \X Ids(kb.TestCase)
      [] loop = "Req2TC"      -> Ids(kb.FR) \X Ids(kb.TestCase)

LoopNames == {"Req2Des_FR", "Req2Des_NFR", "Req2Code", "Des2Code", "Code2TC", "Req2TC"}

\* The invocations made for a pair in a loop
CallsOf(loop, pair) ==
    {i \in DOMAIN calls :
        calls[i].loop = loop /\ <<calls[i].section1, calls[i].section2>> = pair}

\* The pairs of a loop whose invocation returned true
RelatedPairs(loop) ==
    {<<calls[i].section1, calls[i].section2>> :
        i \in {j \in DOMAIN calls : calls[j].loop = loop /\ calls[j].related}}

\* The endpoints of the edges of each category
Req2DesEnds  == {<<e.requirement_id, e.design_id>> : e \in Range(relationships.Req2Des)}
Req2CodeEnds == {<<e.requirement_id, e.code_id>> : e \in Range(relationships.Req2Code)}
Des2CodeEnds == {<<e.design_id, e.code_id>> : e \in Range(relationships.Des2Code)}
Code2TCEnds  == {<<e.code_id, e.test_case_id>> : e \in Range(relationships.Code2TC)}
Req2TCEnds   == {<<e.requirement_id, e.test_case_id>> : e \in Range(relationships.Req2TC)}

\* A list of edges with no pair twice, whose pairs are the given ones
EdgesAre(edges, ends, pairs) == ends = pairs /\ Len(edges) = Cardinality(pairs)

\* C5: with a classifier, each pair of the six cross products is queried exactly
\* once, nothing else is queried, and a category holds an edge for a pair if and
\* only if that pair's invocation returned true.
C5_OncePerPairEdgeIffTrue ==
    llm_client =>
        /\ \A i \in DOMAIN calls :
              /\ <<calls[i].section1, calls[i].section2>> \in ClaimedPairs(calls[i].loop)
              /\ Cardinality(CallsOf(calls[i].loop, <<calls[i].section1, calls[i].section2>>)) = 1
        /\ kb_pc = "done" =>
              \A loop \in LoopNames : \A pair \in ClaimedPairs(loop) :
                  Cardinality(CallsOf(loop, pair)) = 1
        /\ EdgesAre(relationships.Req2Des, Req2DesEnds,
                    RelatedPairs("Req2Des_FR") \cup RelatedPairs("Req2Des_NFR"))
        /\ EdgesAre(relationships.Req2Code, Req2CodeEnds, RelatedPairs("Req2Code"))
        /\ EdgesAre(relationships.Des2Code, Des2CodeEnds, RelatedPairs("Des2Code"))
        /\ EdgesAre(relationships.Code2TC, Code2TCEnds, RelatedPairs("Code2TC"))
        /\ EdgesAre(relationships.Req2TC, Req2TCEnds, RelatedPairs("Req2TC"))

C5_Witness ==
    /\ kb_pc = "done"
    /\ llm_client
    /\ Cardinality({calls[i].loop : i \in DOMAIN calls}) >= 5
    /\ \E i \in DOMAIN calls : calls[i].related
    /\ \E i \in DOMAIN calls : ~calls[i].related
    /\ \E c \in Range(kb.Code) : c.type = "file"

\* C6: the code endpoint of every Req2Code, Des2Code and Code2TC edge is a code
\* section of type function or class, never of type file.
C6_CodeEndpointNotFile ==
    \A id \in {e.code_id : e \in Range(relationships.Req2Code)}
              \cup {e.code_id : e \in Range(relationships.Des2Code)}
              \cup {e.code_id : e \in Range(relationships.Code2TC)} :
        /\ \E c \in Range(kb.Code) : c.id = id
        /\ \A c \in Range(kb.Code) : c.id = id => c.type \in {"function", "class"}

C6_Witness ==
    /\ kb_pc = "done"
    /\ \E c \in Range(kb.Code) : c.type = "file"
    /\ relationships.Req2Code # <<>>
    /\ relationships.Des2Code # <<>>
    /\ relationships.Code2TC # <<>>

\* C7: no Req2Code edge and no Req2TC edge has the identifier of an NFR entity as
\* its requirement endpoint.
C7_NoNfrInReq2CodeReq2TC ==
    \A id \in {e.requirement_id : e \in Range(relationships.Req2Code)}
              \cup {e.requirement_id : e \in Range(relationships.Req2TC)} :
        id \notin Ids(kb.NFR)

\* The classifier answered YES to every query of a build that has NFRs
C7_Witness ==
    /\ kb_pc = "done"
    /\ llm_client
    /\ kb.NFR # <<>>
    /\ \A i \in DOMAIN calls : calls[i].related
    /\ relationships.Req2Code # <<>>
    /\ relationships.Req2TC # <<>>

\* C8: every requirement_id of an edge is the id of an FR or an NFR of the graph,
\* every design_id that of a design section, every code_id that of a code
\* section and every test_case_id that of a test case.
C8_ReferentialIntegrity ==
    /\ \A e \in Range(relationships.Req2Des) :
          e.requirement_id \in Ids(kb.FR) \cup Ids(kb.NFR) /\ e.design_id \in Ids(kb.Design)
    /\ \A e \in Range(relationships.Req2Code) :
          e.requirement_id \in Ids(kb.FR) \cup Ids(kb.NFR) /\ e.code_id \in Ids(kb.Code)
    /\ \A e \in Range(relationships.Des2Code) :
          e.design_id \in Ids(kb.Design) /\ e.code_id \in Ids(kb.Code)
    /\ \A e \in Range(relationships.Code2TC) :
          e.code_id \in Ids(kb.Code) /\ e.test_case_id \in Ids(kb.TestCase)
    /\ \A e \in Range(relationships.Req2TC) :
          e.requirement_id \in Ids(kb.FR) \cup Ids(kb.NFR) /\ e.test_case_id \in Ids(kb.TestCase)

C8_Witness ==
    /\ kb_pc = "done"
    /\ relationships.Req2Des # <<>>
    /\ relationships.Des2Code # <<>>
    /\ relationships.Req2TC # <<>>

\* Every section of the graph, category after category
AllSections == kb.Context \o kb.FR \o kb.NFR \o kb.Design \o kb.Code \o kb.TestCase

\* C9: every entity carries an identifier generated for it by a uuid4() call of
\* this build, and no two entities of the graph share an identifier.
C9_UniqueIds ==
    /\ \A i, j \in DOMAIN AllSections : i # j => AllSections[i].id # AllSections[j].id
    /\ \A i \in DOMAIN AllSections : AllSections[i].id \in {Uuid4(n) : n \in 1..next_uuid}
    /\ Len(AllSections) = next_uuid

C9_Witness ==
    /\ kb_pc = "done"
    /\ kb.Context # <<>>
    /\ Len(kb.FR) + Len(kb.NFR) >= 2
    /\ \E c \in Range(kb.Code) : c.type = "file"
    /\ \E c \in Range(kb.Code) : c.type # "file"

\* C10: without a classifier, Req2Code, Des2Code and Req2TC are empty, and when
\* there is an FR and a design section Req2Des is exactly one edge, from the
\* first FR to the first design section, labelled "implements".
C10_Fallback ==
    (kb_pc = "done" /\ ~llm_client) =>
        /\ relationships.Req2Code = <<>>
        /\ relationships.Des2Code = <<>>
        /\ relationships.Req2TC = <<>>
        /\ calls = <<>>
        /\ (kb.FR # <<>> /\ kb.Design # <<>>) =>
              /\ Len(relationships.Req2Des) = 1
              /\ relationships.Req2Des[1].requirement_id = kb.FR[1].id
              /\ kb.FR[1].fr_id = kb_in.fr[1].id
              /\ relationships.Req2Des[1].design_id = kb.Design[1].id
              /\ kb.Design[1].title = kb_in.design[1].title
              /\ relationships.Req2Des[1].relationship_type = "implements"

C10_Witness ==
    /\ kb_pc = "done"
    /\ ~llm_client
    /\ Len(kb.FR) >= 2
    /\ Len(kb.Design) >= 2
    /\ relationships.Req2Des # <<>>

\* The number of edges of the five lists together
EdgeCount ==
    Len(relationships.Req2Des) + Len(relationships.Req2Code) + Len(relationships.Des2Code)
        + Len(relationships.Code2TC) + Len(relationships.Req2TC)

\* The step is a classifier call whose completion call raised
CallRaises == llm_client /\ Len(calls') = Len(calls) + 1 /\ ~llm_response'.ok

\* C15: a classifier call that raises adds no edge and removes none, the loop
\* goes on to the next pair, the build is never stuck before it returns, and
\* when it returns every pair of the six cross products has been queried and
\* the six entity lists are those built from the inputs.
C15_FailureDoesNotAbort ==
    /\ [][CallRaises =>
             /\ relationships' = relationships
             /\ ~calls'[Len(calls')].related
             /\ kb' = kb
             /\ kb_pc' = kb_pc
             /\ kb_k' = kb_k + 1]_vars
    /\ [](kb_pc # "done" => ENABLED KBNext)
    /\ []((kb_pc = "done" /\ llm_client) =>
             /\ \A loop \in LoopNames : \A pair \in ClaimedPairs(loop) :
                   Cardinality(CallsOf(loop, pair)) = 1
             /\ Len(kb.Context) = Cardinality(kb_in.context)
             /\ Len(kb.FR) = Len(kb_in.fr)
             /\ Len(kb.NFR) = Len(kb_in.nfr)
             /\ Len(kb.Design) = Len(kb_in.design)
             /\ Len(kb.Code) = CodeSize(kb_in.code)
             /\ Len(kb.TestCase) = SumLen(kb_in.test_cases))

\* A call has raised with edges already there and pairs still to come
C15_Witness ==
    /\ llm_client
    /\ calls # <<>>
    /\ ~llm_response.ok
    /\ EdgeCount >= 1
    /\ kb_pc = "Req2Code"
    /\ kb_k < PairCount(kb_pc, kb)

\* C16: a Req2Des edge whose requirement is an FR has requirement_type "FR"
\* and relationship_type "implements", one whose requirement is an NFR has
\* "NFR" and "constrains"; every Req2Code edge is labelled "implements", every
\* Des2Code edge "realized_by", every Code2TC edge "tested_by" and every Req2TC
\* edge "validated_by".
C16_EdgeLabels ==
    /\ \A e \in Range(relationships.Req2Des) :
          /\ e.requirement_id \in Ids(kb.FR) =>
                e.requirement_type = "FR" /\ e.relationship_type = "implements"
          /\ e.requirement_id \in Ids(kb.NFR) =>
                e.requirement_type = "NFR" /\ e.relationship_type = "constrains"
          /\ e.requirement_id \in Ids(kb.FR) \cup Ids(kb.NFR)
    /\ \A e \in Range(relationships.Req2Code) : e.relationship_type = "implements"
    /\ \A e \in Range(relationships.Des2Code) : e.relationship_type = "realized_by"
    /\ \A e \in Range(relationships.Code2TC) : e.relationship_type = "tested_by"
    /\ \A e \in Range(relationships.Req2TC) : e.relationship_type = "validated_by"

\* A build with an FR edge and an NFR edge in Req2Des and an edge to a test case
C16_Witness ==
    /\ kb_pc = "done"
    /\ \E e \in Range(relationships.Req2Des) : e.requirement_id \in Ids(kb.FR)
    /\ \E e \in Range(relationships.Req2Des) : e.requirement_id \in Ids(kb.NFR)
    /\ relationships.Req2TC # <<>>

\* The sum of the first n numbers of a sequence
RECURSIVE SumOf(_, _)
SumOf(ns, n) == IF n = 0 THEN 0 ELSE ns[n] + SumOf(ns, n - 1)

\* The code sections of the files before the p-th, the test cases of the files
\* before the p-th
CodeBefore(p) ==
    SumOf([q \in DOMAIN kb_in.code |->
              1 + Len(kb_in.code[q].functions) + Len(kb_in.code[q].classes)], p - 1)
TestsBefore(p) == SumOf([q \in DOMAIN kb_in.test_cases |-> Len(kb_in.test_cases[q])], p - 1)

\* C18: the i-th FR, NFR and design entity is built from the i-th item of its
\* input list, the i-th design entity has des_id "DES<i>"; the test cases come
\* file after file, in list order within a file; each file gives its file
\* section, then its functions in order, then its classes in order, and there
\* are as many code sections as files, functions and classes together.
C18_OrderAndCount ==
    kb_pc = "done" =>
        /\ Len(kb.FR) = Len(kb_in.fr)
        /\ \A i \in DOMAIN kb_in.fr : kb.FR[i].fr_id = kb_in.fr[i].id
        /\ Len(kb.NFR) = Len(kb_in.nfr)
        /\ \A i \in DOMAIN kb_in.nfr : kb.NFR[i].nfr_id = kb_in.nfr[i].id
        /\ Len(kb.Design) = Len(kb_in.design)
        /\ \A i \in DOMAIN kb_in.design :
              /\ kb.Design[i].title = kb_in.design[i].title
              /\ kb.Design[i].des_id = <<"D","E","S">> \o Decimal(i)
        /\ Len(kb.TestCase) = TestsBefore(Len(kb_in.test_cases) + 1)
        /\ \A p \in DOMAIN kb_in.test_cases : \A j \in DOMAIN kb_in.test_cases[p] :
              LET sec == kb.TestCase[TestsBefore(p) + j] IN
              /\ sec.tc_id = kb_in.test_cases[p][j].id
              /\ sec.component = kb_in.test_cases[p][j].component
              /\ sec.file_path = p
        /\ Len(kb.Code) = CodeBefore(Len(kb_in.code) + 1)
        /\ \A p \in DOMAIN kb_in.code :
              LET f == kb_in.code[p]
                  at == CodeBefore(p)
              IN
              /\ kb.Code[at + 1].type = "file"
              /\ kb.Code[at + 1].file_path = p
              /\ \A i \in DOMAIN f.functions :
                    LET sec == kb.Code[at + 1 + i] IN
                    /\ sec.type = "function"
                    /\ sec.file_path = p
                    /\ sec.name = f.functions[i].name
                    /\ sec.start_line = f.functions[i].start_line
              /\ \A i \in DOMAIN f.classes :
                    LET sec == kb.Code[at + 1 + Len(f.functions) + i] IN
                    /\ sec.type = "class"
                    /\ sec.file_path = p
                    /\ sec.name = f.classes[i].name
                    /\ sec.start_line = f.classes[i].start_line

\* A build of two files, one of them with a function and a class
C18_Witness ==
    /\ kb_pc = "done"
    /\ Len(kb_in.code) = 2
    /\ \E p \in DOMAIN kb_in.code :
          kb_in.code[p].functions # <<>> /\ kb_in.code[p].classes # <<>>
    /\ Len(kb.Code) = 4

----------------------------------------------------------------------------
(* Claims about two builds on the same inputs (SpecRuns) *)

\* Every section of a graph, category after category
SectionsOf(g) == g.Context \o g.FR \o g.NFR \o g.Design \o g.Code \o g.TestCase

\* The place of the section with the given id among the sections of a graph
PlaceOf(g, id) == CHOOSE k \in DOMAIN SectionsOf(g) : SectionsOf(g)[k].id = id

EntityCounts(g) ==
    <<Len(g.Context), Len(g.FR), Len(g.NFR), Len(g.Design), Len(g.Code), Len(g.TestCase)>>

EdgeCounts(r) ==
    <<Len(r.Req2Des), Len(r.Req2Code), Len(r.Des2Code), Len(r.Code2TC), Len(r.Req2TC)>>

\* The edges of a graph with the places of their endpoints for identifiers
EdgePlaces(g, r) ==
    [Req2Des  |-> [k \in DOMAIN r.Req2Des |->
                     <<PlaceOf(g, r.Req2Des[k].requirement_id), PlaceOf(g, r.Req2Des[k].design_id)>>],
     Req2Code |-> [k \in DOMAIN r.Req2Code |->
                     <<PlaceOf(g, r.Req2Code[k].requirement_id), PlaceOf(g, r.Req2Code[k].code_id)>>],
     Des2Code |-> [k \in DOMAIN r.Des2Code |->
                     <<PlaceOf(g, r.Des2Code[k].design_id), PlaceOf(g, r.Des2Code[k].code_id)>>],
     Code2TC  |-> [k \in DOMAIN r.Code2TC |->
                     <<PlaceOf(g, r.Code2TC[k].code_id), PlaceOf(g, r.Code2TC[k].test_case_id)>>],
     Req2TC   |-> [k \in DOMAIN r.Req2TC |->
                     <<PlaceOf(g, r.Req2TC[k].requirement_id), PlaceOf(g, r.Req2TC[k].test_case_id)>>]]

\* The second of two builds on the same inputs has returned
SecondRunDone == first_run # <<>> /\ kb_pc = "done"

\* C17: two builds on the same inputs, with a classifier that answers the same
\* for the same pair and relation, give the same number of entities in every
\* category and the same number of edges in every relationship category, the
\* edges joining the entities at the same places, while no identifier of one
\* graph is an identifier of the other.
C17_SameShape ==
    SecondRunDone =>
        /\ EntityCounts(kb) = EntityCounts(first_run[1].kb)
        /\ EdgeCounts(relationships) = EdgeCounts(first_run[1].relationships)
        /\ EdgePlaces(kb, relationships)
              = EdgePlaces(first_run[1].kb, first_run[1].relationships)
        /\ Ids(SectionsOf(kb)) \cap Ids(SectionsOf(first_run[1].kb)) = {}

\* Two builds with a classifier that answered YES for some pairs and not for
\* others, with edges in two categories at least
C17_Witness ==
    /\ SecondRunDone
    /\ llm_client
    /\ \E i \in DOMAIN calls : calls[i].related
    /\ \E i \in DOMAIN calls : ~calls[i].related
    /\ Cardinality({k \in 1..5 : EdgeCounts(relationships)[k] >= 1}) >= 2

----------------------------------------------------------------------------
(* Claims about the fallback's name matching (SpecFallback) *)

\* name, compared case-insensitively, occurs in component at some offset
IsSubstringIgnoringCase(name, component) ==
    \E off \in 0..Len(component) :
        /\ off + Len(name) <= Len(component)
        /\ \A k \in 1..Len(name) : LowerChar(name[k]) = LowerChar(component[off + k])

\* The number of Code2TC edges between a code section and a test case
Code2TCEdges(code, tc) ==
    Cardinality({i \in DOMAIN relationships.Code2TC :
                    /\ relationships.Code2TC[i].code_id = code.id
                    /\ relationships.Code2TC[i].test_case_id = tc.id})

\* C11 as stated: without a classifier, a Code2TC edge (code, tc) exists for
\* exactly the pairs where code is a function or a class whose name is,
\* case-insensitively, a substring of the test case's component: one edge for
\* every such pair, none for any other.
C11_EdgeIffSubstring ==
    (kb_pc = "done" /\ ~llm_client) =>
        \A code \in Range(kb.Code), tc \in Range(kb.TestCase) :
            Code2TCEdges(code, tc) =
                IF /\ code.type \in {"function", "class"}
                   /\ IsSubstringIgnoringCase(code.name, tc.component)
                THEN 1 ELSE 0

\* C11 amended: the same, for the functions and classes whose name is not
\* empty; a function or class without a name has no edge, although the empty
\* name is a substring of every component.
C11_EdgeIffNonEmptySubstring ==
    (kb_pc = "done" /\ ~llm_client) =>
        /\ \A code \in Range(kb.Code), tc \in Range(kb.TestCase) :
              Code2TCEdges(code, tc) =
                  IF /\ code.type \in {"function", "class"}
                     /\ code.name # <<>>
                     /\ IsSubstringIgnoringCase(code.name, tc.component)
                  THEN 1 ELSE 0
        /\ \A e \in Range(relationships.Code2TC) :
              /\ e.code_id \in Ids(kb.Code)
              /\ e.test_case_id \in Ids(kb.TestCase)
              /\ e.relationship_type = "tested_by"

\* A build whose code has a matching name in another case and an empty name
C11_Witness ==
    /\ kb_pc = "done"
    /\ ~llm_client
    /\ \E c \in Range(kb.Code) : c.name = <<"L","O","G","I","N">>
    /\ \E c \in Range(kb.Code) : c.type = "function" /\ c.name = <<>>
    /\ \E t \in Range(kb.TestCase) : t.component # <<>>
    /\ Len(relationships.Code2TC) = 1

----------------------------------------------------------------------------
(* Claims about generate_test_cases (SpecGen) *)

\* The number of tests of the returned mapping
ReturnedTests == SumLen([i \in DOMAIN gen_test_cases |-> gen_test_cases[i].tests])

\* C12: the number of test cases produced across a run never exceeds the
\* configured maximum total.
C12_TotalNeverExceedsMax ==
    /\ total_test_cases <= settings.MAX_TOTAL_TEST_CASES
    /\ ReturnedTests <= settings.MAX_TOTAL_TEST_CASES

----------------------------------------------------------------------------
(* Claims about _parse_design_response (SpecDes) *)

\* The line, without the white space around it, starts with '#', or has a
\* letter, no lower-case letter and fewer than 100 characters
HeaderLine(raw) ==
    LET line == Strip(raw) IN
    \/ line # <<>> /\ line[1] = "#"
    \/ /\ Len(line) < 100
       /\ \E i \in DOMAIN line : line[i] \in Range(Uppers)
       /\ \A i \in DOMAIN line : line[i] \notin Range(Lowers)

\* C13: for a text none of whose lines is a header, the result is exactly one
\* section, titled "Technical Design", whose content is the full input text.
C13_NoHeaderOneDefaultSection ==
    (des_pc = "done" /\ \A i \in DOMAIN des_lines : ~HeaderLine(des_lines[i])) =>
        /\ Len(sections) = 1
        /\ sections[1].title = <<"T","e","c","h","n","i","c","a","l"," ","D","e","s","i","g","n">>
        /\ sections[1].content = JoinLines(des_lines)

\* A text of body lines, one of them the upper-case line of 100 characters
C13_Witness ==
    /\ des_pc = "done"
    /\ \A i \in DOMAIN des_lines : ~HeaderLine(des_lines[i])
    /\ \E i \in DOMAIN des_lines : des_lines[i] = LongUpper
    /\ \E i \in DOMAIN des_lines : des_lines[i] = <<" ","b"," ","c">>
    /\ Len(sections) = 1

----------------------------------------------------------------------------
(* Claims about the lines inside an open test-case record (SpecTC) *)

\* The line the loop is about to take, as line 193 strips it
NextTCLine == Strip(tc_lines[tc_pos + 1])

\* The loop is about to take a line that is not blank while a record is open
InsideRecord ==
    /\ tc_pc = "loop"
    /\ tc_pos < Len(tc_lines)
    /\ current_test # <<>>
    /\ NextTCLine # <<>>

HoldsWord(w, line) ==
    \E p \in 1..Len(line) :
        p + Len(w) - 1 <= Len(line) /\ Lower(SubSeq(line, p, p + Len(w) - 1)) = w

HoldsTCId(line) ==
    \E p \in 1..(Len(line) - 2) :
        Lower(SubSeq(line, p, p + 1)) = <<"t","c">> /\ line[p + 2] \in Digits

\* A field line: a field keyword with a colon, or the word "step"
IsFieldLine(line) ==
    \/ /\ \E i \in DOMAIN line : line[i] = ":"
       /\ \/ HoldsWord(<<"n","a","m","e">>, line)
          \/ HoldsWord(<<"d","e","s","c","r","i","p","t","i","o","n">>, line)
          \/ HoldsWord(<<"i","n","p","u","t">>, line)
          \/ HoldsWord(<<"e","x","p","e","c","t","e","d">>, line)
    \/ HoldsWord(<<"s","t","e","p">>, line)

\* A step bullet: the line begins with a dash or a digit
IsStepBullet(line) == line[1] = "-" \/ line[1] \in Digits

\* The text accumulated for the field a cursor names
FieldText(t, cursor) ==
    CASE cursor = "name"        -> t.name
      [] cursor = "description" -> t.description
      [] cursor = "input"       -> t.input_data
      [] cursor = "expected"    -> t.expected_output

\* A line that is no header, no field line and no step bullet arrives while a
\* cursor is active
ContinuationArrives ==
    /\ InsideRecord
    /\ current_field # "none"
    /\ ~HoldsTCId(NextTCLine)
    /\ ~IsFieldLine(NextTCLine)
    /\ ~IsStepBullet(NextTCLine)

\* C19: inside an open record, for every active cursor (name, description,
\* input, expected, steps), a line that is not a TC header, not a field line and
\* not a step bullet is appended, joined by a space, to the text accumulated for
\* the cursor's field; no such line is dropped.
C19_ContinuationAppended ==
    [][ContinuationArrives =>
          /\ current_test' # <<>>
          /\ current_field' = current_field
          /\ IF current_field = "steps"
             THEN current_test'[1].test_steps # current_test[1].test_steps
             ELSE FieldText(current_test'[1], current_field)
                    = FieldText(current_test[1], current_field) \o <<" ">> \o NextTCLine]_vars

\* What holds: the same for the cursors description, input and expected
C19_ContinuationAppendedToTexts ==
    [][(ContinuationArrives /\ current_field \in {"description", "input", "expected"}) =>
          /\ current_test' # <<>>
          /\ current_field' = current_field
          /\ FieldText(current_test'[1], current_field)
                = FieldText(current_test[1], current_field) \o <<" ">> \o NextTCLine]_vars

\* The line without its bullet marker: dashes and spaces, then digits, dots and spaces
WithoutMarker(line) == LStrip(LStrip(line, {"-", " "}), Digits \cup {".", " "})

\* A line beginning with a dash or a digit arrives while the cursor is "steps"
StepLineArrives ==
    /\ InsideRecord
    /\ current_field = "steps"
    /\ ~HoldsTCId(NextTCLine)
    /\ IsStepBullet(NextTCLine)

\* C20: while the cursor is "steps", every line beginning with a dash or a
\* digit (that is not a TC header) is appended, its bullet marker removed, to
\* test_steps, in order of arrival, and the cursor stays "steps", whatever other
\* words the line holds.
C20_StepLinesCollected ==
    [][StepLineArrives =>
          /\ current_test' # <<>>
          /\ current_test'[1].test_steps
                = Append(current_test[1].test_steps, WithoutMarker(NextTCLine))
          /\ current_field' = "steps"]_vars

\* What holds: the same for the step lines that are no field lines
C20_PlainStepLinesCollected ==
    [][(StepLineArrives /\ ~IsFieldLine(NextTCLine)) =>
          /\ current_test' # <<>>
          /\ current_test'[1].test_steps
                = Append(current_test[1].test_steps, WithoutMarker(NextTCLine))
          /\ current_field' = "steps"]_vars

----------------------------------------------------------------------------
(* Claims about the three parsers together (SpecParsers) *)

\* C14: for every input text (empty, blank, headers only, none of the expected
\* lines) the design parser returns at least one section, the requirement
\* parser at least one record in its FR and NFR lists together, and the
\* test-case parser at least one record.
C14_NonEmptyOutput ==
    /\ des_pc = "done" => Len(sections) >= 1
    /\ req_pc = "done" =>
          Len(functional_requirements) + Len(non_functional_requirements) >= 1
    /\ tc_pc = "done" => Len(test_cases) >= 1

\* The test-case parser has returned for a text of headers only with the
\* maximum 0, under which no header opens a record
C14_Witness ==
    /\ tc_pc = "done"
    /\ max_tests = 0
    /\ \A i \in DOMAIN tc_lines : HoldsTCId(tc_lines[i])
    /\ Len(test_cases) = 1

----------------------------------------------------------------------------
(* Claims about the section tag and the records of
   _parse_requirements_response (SpecReq) *)

\* The line the loop reads next, stripped
NextReqLine == Strip(req_lines[req_pos + 1])

\* The loop reads a line
ReqLineArrives == req_pc = "loop" /\ req_pos' = req_pos + 1

\* A line that names the non-functional requirements, a line that names the
\* functional requirements only
SaysNFR(line) == IsNFRLine(line)
SaysFR(line) == IsFRLine(line) /\ ~IsNFRLine(line)

\* C21: a line that holds "non-functional requirement" (any case) or starts with
\* "NFR" sets the section tag to NFR, is not handled as an FR header and opens no
\* record whose id is "FR<digits>"; a line that holds "functional requirement"
\* without "non-" or starts with "FR" sets the tag to FR.
C21_SectionTag ==
    [][ (ReqLineArrives /\ NextReqLine # <<>>) =>
           /\ SaysNFR(NextReqLine) =>
                 /\ current_section' = "NFR"
                 /\ current_req' # current_req =>
                       StartsWith(current_req'[1].id, NFRWord)
           /\ SaysFR(NextReqLine) => current_section' = "FR" ]_vars

\* The part of C21 that holds: FR lines, and NFR lines that start with "NFR", set
\* the tag the claim names
C21_TagOfPrefixedLines ==
    [][ (ReqLineArrives /\ NextReqLine # <<>>) =>
           /\ StartsWith(Upper(NextReqLine), NFRWord) =>
                 /\ current_section' = "NFR"
                 /\ current_req' # current_req =>
                       StartsWith(current_req'[1].id, NFRWord)
           /\ SaysFR(NextReqLine) => current_section' = "FR" ]_vars

\* A record is open and the line read next is not blank and opens no record
PlainLineArrives ==
    /\ ReqLineArrives
    /\ current_req # <<>>
    /\ NextReqLine # <<>>
    /\ ~OpensFR(NextReqLine)
    /\ ~OpensNFR(NextReqLine)

\* The open record takes the line: as its description and content when it has no
\* description yet, at the end of its content after a newline otherwise
LineAbsorbed ==
    /\ current_req' # <<>>
    /\ current_req'[1].id = current_req[1].id
    /\ current_req'[1].title = current_req[1].title
    /\ IF current_req[1].description = <<>>
       THEN /\ current_req'[1].description = NextReqLine
            /\ current_req'[1].content = NextReqLine
       ELSE /\ current_req'[1].description = current_req[1].description
            /\ current_req'[1].content = current_req[1].content \o <<"\n">> \o NextReqLine

\* C22: every non-blank line read while a record is open and in which no
\* FR<digits>/NFR<digits> id was matched is absorbed by the open record: the first
\* becomes description and content, each later one is appended to the content
\* after a newline; none is dropped.
C22_LinesAbsorbed == [][PlainLineArrives => LineAbsorbed]_vars

\* The part of C22 that holds: the lines that take neither header branch are
\* absorbed
C22_NonHeaderLinesAbsorbed ==
    [][ (PlainLineArrives /\ ~IsFRLine(NextReqLine) /\ ~IsNFRLine(NextReqLine))
           => LineAbsorbed ]_vars

\* The headers at the positions of a set, in order
HeadersAt(headers, P) ==
    [k \in 1..Cardinality(P) |->
        headers[CHOOSE i \in P : Cardinality({j \in P : j < i}) = k - 1]]

\* The record a header line opens: its id is the prefix and the digits matched
RecordOf(req, header) ==
    /\ req.title = header
    /\ req.id = IF OpensFR(header) THEN FRWord \o IdDigits(FRWord, header)
                ELSE NFRWord \o IdDigits(NFRWord, header)

\* A list holds the records of headers, one each, in order
RecordsOf(list, headers) ==
    /\ Len(list) = Len(headers)
    /\ \A k \in 1..Len(list) : RecordOf(list[k], headers[k])

\* C23: each header line in which an id is matched opens one record and every
\* opened record is emitted once: with at least one such header, the two lists
\* together hold as many records as there are such headers, each list in header
\* order; the synthetic FR1 record is emitted only when there is none.
C23_RecordConservation ==
    req_pc = "done" =>
        LET headers == ReqHeaders
            all == 1..Len(headers)
        IN  IF Len(headers) = 0
            THEN /\ functional_requirements = <<DefaultReq(JoinLines(req_lines))>>
                 /\ non_functional_requirements = <<>>
            ELSE /\ Len(functional_requirements) + Len(non_functional_requirements)
                       = Len(headers)
                 /\ \E P \in SUBSET all :
                       /\ Cardinality(P) = Len(functional_requirements)
                       /\ RecordsOf(functional_requirements, HeadersAt(headers, P))
                       /\ RecordsOf(non_functional_requirements,
                                    HeadersAt(headers, all \ P))

\* Three records were opened and both lists hold some
C23_Witness ==
    /\ req_pc = "done"
    /\ Len(ReqHeaders) >= 3
    /\ Len(functional_requirements) >= 1
    /\ Len(non_functional_requirements) >= 1
    /\ Len(functional_requirements) + Len(non_functional_requirements) >= 3

\* The header lines of the text, with or without an id, in order
TagLines == SelectSeq(ReqStripped, LAMBDA l : IsFRLine(l) \/ IsNFRLine(l))

\* The tag the most recent header line of the text sets
LastTag ==
    IF Len(TagLines) = 0 THEN "none"
    ELSE IF IsFRLine(TagLines[Len(TagLines)]) THEN "FR" ELSE "NFR"

\* The input ends while a record is open
EndsWithOpenRecord == req_pc = "loop" /\ req_pc' = "done" /\ current_req # <<>>

\* C24: the record still open at end of input is appended to the FR list if the
\* tag set by the most recent header line is FR and to the NFR list otherwise;
\* header lines without an id, which open no record, count as well.
C24_ClosedByLastTag ==
    [][ EndsWithOpenRecord =>
           IF LastTag = "FR"
           THEN /\ functional_requirements' = Append(functional_requirements, current_req[1])
                /\ non_functional_requirements' = non_functional_requirements
           ELSE /\ non_functional_requirements' = Append(non_functional_requirements, current_req[1])
                /\ functional_requirements' = functional_requirements ]_vars

\* A record opened by an NFR<digits> header was open at the end, the last header
\* of the text has no id and set the tag FR, and the record is in the FR list
C24_Witness ==
    /\ req_pc = "done"
    /\ current_req # <<>>
    /\ StartsWith(current_req[1].id, NFRWord)
    /\ Len(TagLines) >= 2
    /\ ~OpensFR(TagLines[Len(TagLines)])
    /\ ~OpensNFR(TagLines[Len(TagLines)])
    /\ LastTag = "FR"
    /\ functional_requirements # <<>>
    /\ functional_requirements[Len(functional_requirements)] = current_req[1]
    /\ non_functional_requirements = <<>>

----------------------------------------------------------------------------
(* Claims about the sections and the body lines of _parse_design_response
   (SpecDes) *)

\* The lines of the text that are not blank, stripped, in order
DesStripped == SelectSeq([i \in 1..Len(des_lines) |-> Strip(des_lines[i])], LAMBDA l : l # <<>>)

\* The positions of the header lines among them
HeaderPositions(ls) == {i \in 1..Len(ls) : HeaderLine(ls[i])}

\* The k-th smallest element of a set of numbers
Nth(P, k) == CHOOSE i \in P : Cardinality({j \in P : j < i}) = k - 1

\* The body lines that follow the header at position p, up to the next header
BodyAfter(ls, p) ==
    LET later == {q \in HeaderPositions(ls) : q > p}
        stop == IF later = {} THEN Len(ls) + 1 ELSE Nth(later, 1)
    IN  SubSeq(ls, p + 1, stop - 1)

\* C25: for a text with H >= 1 header lines the result has exactly H sections,
\* in header order; the title of each is its header without the leading '#', and
\* its description and its content are the body lines that follow the header,
\* joined by newlines.
C25_OneSectionPerHeader ==
    des_pc = "done" =>
        LET ls == DesStripped
            P == HeaderPositions(ls)
        IN  P # {} =>
              /\ Len(sections) = Cardinality(P)
              /\ \A k \in 1..Len(sections) :
                    /\ sections[k].title = Strip(LStrip(ls[Nth(P, k)], {"#"}))
                    /\ sections[k].content = JoinLines(BodyAfter(ls, Nth(P, k)))
                    /\ sections[k].description = sections[k].content

\* The part of C25 that holds: the headers with a title after the '#' marks have
\* one section each, in order, with the title and the body as stated
C25_OneSectionPerTitledHeader ==
    des_pc = "done" =>
        LET ls == DesStripped
            P == {p \in HeaderPositions(ls) : Strip(LStrip(ls[p], {"#"})) # <<>>}
        IN  P # {} =>
              /\ Len(sections) = Cardinality(P)
              /\ \A k \in 1..Len(sections) :
                    /\ sections[k].title = Strip(LStrip(ls[Nth(P, k)], {"#"}))
                    /\ sections[k].content = JoinLines(BodyAfter(ls, Nth(P, k)))
                    /\ sections[k].description = sections[k].content

\* C26: every line of the text that is not blank and not a header is in the
\* content of an emitted section: the one opened by the nearest header before
\* it, or, for a line with no header before it, any emitted section.
C26_BodyLinesKept ==
    des_pc = "done" =>
        LET ls == DesStripped
            P == HeaderPositions(ls)
        IN  \A i \in 1..Len(ls) :
              ~HeaderLine(ls[i]) =>
                 LET before == {p \in P : p < i} IN
                 IF before = {}
                 THEN \E k \in 1..Len(sections) : Contains(ls[i], sections[k].content)
                 ELSE LET p == Nth(before, Cardinality(before)) IN
                      \E k \in 1..Len(sections) :
                         /\ sections[k].title = Strip(LStrip(ls[p], {"#"}))
                         /\ Contains(ls[i], sections[k].content)

\* The part of C26 that holds: the body lines after a header with a title are in
\* the content of that header's section
C26_BodyLinesAfterTitleKept ==
    des_pc = "done" =>
        LET ls == DesStripped
            P == HeaderPositions(ls)
        IN  \A i \in 1..Len(ls) :
              ~HeaderLine(ls[i]) =>
                 LET before == {p \in P : p < i} IN
                 (before # {} /\ Strip(LStrip(ls[Nth(before, Cardinality(before))], {"#"})) # <<>>) =>
                      \E k \in 1..Len(sections) :
                         /\ sections[k].title = Strip(LStrip(ls[Nth(before, Cardinality(before))], {"#"}))
                         /\ Contains(ls[i], sections[k].content)

----------------------------------------------------------------------------
(* Claims about the result and the early stop of generate_test_cases
   (SpecGen) *)

\* The tests returned under a file path
ReturnedFor(path) ==
    SumLen([i \in DOMAIN gen_test_cases |->
              IF gen_test_cases[i].file_path = path THEN gen_test_cases[i].tests ELSE <<>>])

\* The tests generated and counted for the components of a file
CountedFor(path) ==
    SumOf([i \in DOMAIN generated |->
             IF generated[i].file_path = path THEN generated[i].tests ELSE 0],
          Len(generated))

\* C27: every test case generated for a function or class and counted in the
\* running total is in the returned mapping under its file path: for each file
\* the returned list is as long as the count of its components' tests, and the
\* lengths of the returned lists add up to the final running total.
C27_ReturnedEqualsTotal ==
    gen_pc = "done" =>
        /\ ReturnedTests = total_test_cases
        /\ \A path \in 1..Len(parsed_code) : ReturnedFor(path) = CountedFor(path)

\* The part of C27 that holds: the tests of every file whose class loop was
\* reached are returned
C27_ReturnedIfClassesReached ==
    gen_pc = "done" =>
        \A path \in 1..Len(parsed_code) :
            (path < gen_file \/ ReturnedFor(path) > 0) => ReturnedFor(path) = CountedFor(path)

\* The running total has reached the configured maximum
AtLimit == gen_pc # "idle" /\ total_test_cases >= max_total

\* The components of the parsed code
ComponentCount ==
    SumLen([i \in DOMAIN parsed_code |-> parsed_code[i].functions \o parsed_code[i].classes])

\* C28: once the running total is greater than or equal to the configured
\* maximum, no further function or class has test cases generated (no further
\* completion call), nothing raises, and the run ends: each loop is left for the
\* return at its next step.
C28_EarlyStop ==
    /\ [][ AtLimit =>
             /\ generated' = generated
             /\ total_test_cases' = total_test_cases
             /\ gen_pc' # "raised"
             /\ gen_pc \in {"functions", "classes"} => gen_pc' = "done" ]_vars
    /\ [](AtLimit => gen_pc # "raised")
    /\ []((AtLimit /\ gen_pc # "done") => ENABLED GenNext)

\* The run has ended at a positive limit with components left without tests
C28_Witness ==
    /\ gen_pc = "done"
    /\ max_total >= 1
    /\ total_test_cases >= max_total
    /\ Len(generated) >= 1
    /\ Len(generated) < ComponentCount
    /\ gen_file < Len(parsed_code)

----------------------------------------------------------------------------
(* Claims about two builds whose classifier answers differently
   (SpecOtherAnswers) *)

\* A section without its identifier: what the summary of the prompt is made from
WithoutId(section) == [f \in DOMAIN section \ {"id"} |-> section[f]]

\* What an invocation was made with: the loop, which fixes the relationship type
\* and the expected relation, and the two sections, by place and by content
QueryOf(g, call) ==
    LET p == PlaceOf(g, call.section1)
        q == PlaceOf(g, call.section2)
    IN  [loop |-> call.loop, places |-> <<p, q>>,
         section1 |-> WithoutId(SectionsOf(g)[p]),
         section2 |-> WithoutId(SectionsOf(g)[q])]

\* The pair of an invocation has an edge in the category of its loop
HasEdge(g, r, call) ==
    \E k \in DOMAIN r[CategoryOf(call.loop)] :
        EdgePlaces(g, r)[CategoryOf(call.loop)][k]
            = <<PlaceOf(g, call.section1), PlaceOf(g, call.section2)>>

\* C29: two builds on the same entities whose classifier answers differently
\* query the same pairs in the same order, each with the same relation and the
\* same two sections; a pair that got the same answer in both has the same edge
\* in both, whatever the other answers were.
C29_CallsIndependent ==
    SecondRunDone =>
        LET one == first_run[1] IN
        /\ Len(calls) = Len(one.calls)
        /\ \A k \in DOMAIN calls :
              /\ QueryOf(kb, calls[k]) = QueryOf(one.kb, one.calls[k])
              /\ calls[k].related = one.calls[k].related =>
                    (HasEdge(kb, relationships, calls[k])
                        <=> HasEdge(one.kb, one.relationships, one.calls[k]))

\* Two builds of three invocations or more: one pair got different answers in
\* the two, another got YES in both and a third got no YES in either
C29_Witness ==
    /\ SecondRunDone
    /\ first_run[1].answers = "any"
    /\ Len(calls) >= 3
    /\ \E k \in DOMAIN calls : calls[k].related # first_run[1].calls[k].related
    /\ \E k \in DOMAIN calls : calls[k].related /\ first_run[1].calls[k].related
    /\ \E k \in DOMAIN calls : ~calls[k].related /\ ~first_run[1].calls[k].related

----------------------------------------------------------------------------
(* Claims about the choice between the classifier and the fallback (Spec) *)

\* C30: the fallback is chosen by the absence of a client alone: a build with a
\* client all of whose classifier invocations fail has five empty edge lists,
\* without the first-FR-to-first-design edge and without any name-matching
\* Code2TC edge of the fallback; a build without a client makes no classifier
\* invocation.
C30_FallbackOnlyWithoutClient ==
    /\ (llm_client /\ every_call_failed) => relationships = NoRelationships
    /\ ~llm_client => calls = <<>> /\ every_call_failed

\* A build with a client has returned after two invocations or more, all of
\* which failed, on entities for which the fallback gives a Req2Des and a
\* Code2TC edge
C30_Witness ==
    /\ kb_pc = "done"
    /\ llm_client
    /\ every_call_failed
    /\ Len(calls) >= 2
    /\ llm_response = Raised
    /\ BuildRelationshipsFallback(kb).Req2Des # <<>>
    /\ BuildRelationshipsFallback(kb).Code2TC # <<>>
    /\ relationships = NoRelationships

====
